---------------------------- MODULE Spec2Model ----------------------------
(***************************************************************************)
(* A model of ticktui's OAuth2 authorization-code flow with a loopback     *)
(* callback server (src/ticktui/oauth.py) and of the token exchange it     *)
(* calls (src/ticktui/api.py).                                             *)
(*                                                                         *)
(* Two threads share the class attributes of OAuthCallbackHandler:         *)
(*   - the coordinator, perform_oauth_flow, whose position is pc;          *)
(*   - the HTTPServer thread (serve_forever), which handles one request at *)
(*     a time; its position is hpc.                                        *)
(* The writes of do_GET and the reads of wait_for_callback are separate    *)
(* steps, so every interleaving of the two threads is a behaviour.         *)
(*                                                                         *)
(* Time is counted in ticks of 0.1 s, the poll interval of                 *)
(* wait_for_callback, and advances only while the coordinator sleeps.      *)
(***************************************************************************)
EXTENDS Integers, Sequences, FiniteSets, TLC

VARIABLES
    auth_code,        \* OAuthCallbackHandler.auth_code   (class attribute)
    auth_state,       \* OAuthCallbackHandler.auth_state  (class attribute)
    error,            \* OAuthCallbackHandler.error       (class attribute)
    occupied,         \* ports bound by other processes
    port,             \* OAuthRedirectServer.port
    server,           \* OAuthRedirectServer.server: None or "HTTPServer"
    serving,          \* the serve_forever loop of the listener is running
    sockBound,        \* the listener's socket is still bound to port
    pc,               \* position of perform_oauth_flow
    hpc,              \* position of the request handler thread
    hreq,             \* the request do_GET is in the middle of
    state,            \* the state returned by get_authorization_url
    auth_url,         \* the URL handed to webbrowser.open
    code,             \* perform_oauth_flow's local: code
    returned_state,   \* perform_oauth_flow's local: returned_state
    flow_error,       \* perform_oauth_flow's local: error
    now,              \* ticks slept since wait_for_callback was entered
    access_token,     \* TickTickAuth._access_token
    refresh_token,    \* TickTickAuth._refresh_token
    token_data,       \* the JSON body the token endpoint answered with
    outcome,          \* "running", "returned" or "raised"
    result,           \* the triple perform_oauth_flow returned
    raised,           \* the exception that left perform_oauth_flow
    exchange_calls,   \* number of calls of auth.exchange_code
    browser_opens,    \* number of calls of webbrowser.open
    reqLog,           \* history: the requests handed to do_GET, in order
    readStart,        \* history: requests fully handled when the wait's
                      \*          result tuple began to be read
    readEnd,          \* history: requests begun when the wait returned
    responses,        \* history: the status of each response do_GET sent
    token_posts,      \* number of POSTs sent to TickTickAuth.TOKEN_URL
    probe,            \* what the last call of _find_available_port gave
    refresh_calls,    \* calls of TickTickAuth.refresh_access_token so far
    flows,            \* calls of perform_oauth_flow so far
    reqBase,          \* history: length of reqLog when the current call began
    live,             \* history: the calls whose HTTPServer is in serve_forever
    loop_steps,       \* steps other tasks of the event loop have run
    stored,           \* the token file of TokenStorage
    posted_redirect,  \* the redirect_uri of the last exchange POST
    token_status,     \* the status of the token endpoint's last answer, 0 before
    screen,           \* TickTUIApp: "off" (not running), "login" or "main"
    starts,           \* how many times the application was started
    client,           \* TickTUIApp.client: the access token of its auth, or None
    calls,            \* two perform_oauth_flow calls of one process, by name
    storage_log,      \* history: the calls of TokenStorage methods, with results
    tasks_call,       \* a call of TickTickClient.get_all_tasks
    argv,             \* sys.argv[1:] of the invocation
    launched,         \* history: the entry points __main__.main called
    func,             \* cli.main: the command function argparse selected
    exit_code,        \* the code of the SystemExit raised, -1 before
    printed,          \* what cli.main's runner printed
    api_calls         \* requests the command sent to the Open API

vars == << auth_code, auth_state, error, occupied, port, server, serving,
           sockBound, pc, hpc, hreq, state, auth_url, code, returned_state,
           flow_error, now, access_token, refresh_token, token_data,
           outcome, result, raised, exchange_calls, browser_opens, reqLog,
           readStart, readEnd, responses, token_posts, probe,
           refresh_calls, flows, reqBase, live, loop_steps, stored,
           posted_redirect, token_status, screen, starts, client, calls,
           storage_log, tasks_call, argv, launched, func,
           exit_code, printed, api_calls >>

\* The variables of the command line entry points.
CliVars == << argv, launched, func, exit_code, printed, api_calls >>

\* The variables of the application around the flow, which no statement
\* of oauth.py or of TickTickAuth assigns.
Elsewhere ==
    << flows, reqBase, loop_steps, stored, screen, starts, client, calls,
       storage_log, tasks_call, CliVars >>

(***************************************************************************)
(* Bounds of the model.                                                    *)
(***************************************************************************)
\* Requests that reach the listener during one flow.
MaxRequests == 2
\* The timeout handed to wait_for_callback, in ticks (300 s in the code,
\* scaled down as the spec's P5 does).
TimeoutTicks == 3
\* How many ticks a sleep may overshoot.
MaxJitter == 1

(***************************************************************************)
(* Values.                                                                 *)
(***************************************************************************)
\* Python's None.  No string of the model equals it.
None == "<None>"
\* A query parameter that is not in the query string.
Absent == "<absent>"

\* Python truthiness of an Optional[str].
Truthy(x) == x # None /\ x # ""

\* Values secrets.token_urlsafe may return.
States == {"S1", "S2"}
\* Authorization codes that may appear in a redirect.
Codes == {"c1", "c2"}


(***************************************************************************)
(* HTTP requests to the listener.  A query string is a function from the   *)
(* parameter names it carries to their (possibly blank) values.            *)
(***************************************************************************)
QueryKeys == {"code", "state", "error", "error_description"}

MkQuery(f) == [k \in {k \in QueryKeys : f[k] # Absent} |-> f[k]]

\* Redirects that carry a code: with a state parameter that is absent,
\* blank or one of States, and two that carry an error parameter as well,
\* one of them with a blank code.
CodeQueries ==
    { MkQuery([code |-> "c1", state |-> s, error |-> Absent,
               error_description |-> Absent]) : s \in {Absent, ""} \cup States }
    \cup { MkQuery([code |-> "c2", state |-> s, error |-> Absent,
                    error_description |-> Absent]) : s \in States }
    \cup { MkQuery([code |-> c, state |-> "S1", error |-> "access_denied",
                    error_description |-> Absent]) : c \in {"c1", ""} }

\* Redirects that carry an error parameter and no code; either parameter
\* may be blank.
ErrorQueries ==
    { MkQuery([code |-> Absent, state |-> Absent, error |-> "access_denied",
               error_description |-> d]) : d \in {Absent, "", "User declined"} }
    \cup { MkQuery([code |-> Absent, state |-> Absent, error |-> "",
                    error_description |-> "User declined"]) }

\* Redirects with neither: an empty query and a blank code.
EmptyQueries ==
    { MkQuery([code |-> c, state |-> Absent, error |-> Absent,
               error_description |-> Absent]) : c \in {Absent, ""} }

Requests ==
    { [path |-> "/callback", query |-> q] :
          q \in CodeQueries \cup ErrorQueries \cup EmptyQueries }
    \cup { [path |-> "/favicon.ico", query |-> MkQuery([k \in QueryKeys |-> Absent])] }

NoRequest == [path |-> "", query |-> MkQuery([k \in QueryKeys |-> Absent])]

\* Faulty variant: blank values are kept (keep_blank_values=True).
parse_qs_keep_blank(query) == [k \in DOMAIN query |-> << query[k] >>]

\* urllib.parse.parse_qs with its default keep_blank_values=False: a
\* parameter with a blank value is dropped, the others map to value lists.
parse_qs(query) ==
    [k \in {k \in DOMAIN query : query[k] # ""} |-> << query[k] >>]

\* dict.get(key, default)
Get(d, k, default) == IF k \in DOMAIN d THEN d[k] ELSE default

\* Faulty variant: the description is never looked at.
CallbackErrorNoDescription(params) == params["error"][1]

\* params.get("error_description", params["error"])[0]
CallbackError(params) ==
    Get(params, "error_description", params["error"])[1]

NoCodeMessage == "No authorization code received"

\* Faulty variant: the path is not looked at.
BranchAnyPath(r) ==
    IF "code" \in DOMAIN parse_qs(r.query) THEN "code"
    ELSE IF "error" \in DOMAIN parse_qs(r.query) THEN "error"
    ELSE "neither"

\* The branch do_GET takes for a request: "code", "error", "neither" on
\* /callback, "404" on every other path.
\* Faulty variant of Branch: the error parameter is looked at first.
BranchErrorFirst(r) ==
    IF r.path # "/callback" THEN "404"
    ELSE IF "error" \in DOMAIN parse_qs(r.query) THEN "error"
    ELSE IF "code" \in DOMAIN parse_qs(r.query) THEN "code"
    ELSE "neither"

Branch(r) ==
    IF r.path # "/callback" THEN "404"
    ELSE IF "code" \in DOMAIN parse_qs(r.query) THEN "code"
    ELSE IF "error" \in DOMAIN parse_qs(r.query) THEN "error"
    ELSE "neither"

\* Faulty variant: every /callback request is answered through
\* _send_success_response.
ResponseStatusAlwaysOk(r) == IF Branch(r) = "404" THEN 404 ELSE 200

\* The status line do_GET answers with.
ResponseStatus(r) ==
    CASE Branch(r) = "code" -> 200
      [] Branch(r) = "404" -> 404
      [] OTHER -> 400

(***************************************************************************)
(* OAuthCallbackHandler.do_GET, run by the serve_forever thread.  The code *)
(* branch writes auth_code and auth_state in two statements; the other     *)
(* branches write one attribute or none.                                   *)
(***************************************************************************)
do_GET(r) ==
    /\ serving
    /\ hpc = "idle"
    /\ Len(reqLog) < MaxRequests
    /\ reqLog' = Append(reqLog, r)
    /\ CASE Branch(r) = "code" ->
              /\ auth_code' = parse_qs(r.query)["code"][1]
              /\ hpc' = "write_state"
              /\ hreq' = r
              /\ UNCHANGED << auth_state, error, responses >>
         [] Branch(r) = "error" ->
              /\ error' = CallbackError(parse_qs(r.query))
              /\ responses' = Append(responses, ResponseStatus(r))
              /\ UNCHANGED << auth_code, auth_state, hpc, hreq >>
         [] Branch(r) = "neither" ->
              /\ error' = NoCodeMessage
              /\ responses' = Append(responses, ResponseStatus(r))
              /\ UNCHANGED << auth_code, auth_state, hpc, hreq >>
         [] OTHER ->
              /\ responses' = Append(responses, ResponseStatus(r))
              /\ UNCHANGED << auth_code, auth_state, error, hpc, hreq >>
    /\ UNCHANGED << occupied, port, server, serving, sockBound, pc, state,
                    auth_url, code, returned_state, flow_error, now,
                    access_token, refresh_token, token_data, outcome, result,
                    raised, exchange_calls, browser_opens, readStart, readEnd,
                    token_posts, probe >>
    /\ UNCHANGED << refresh_calls, live, Elsewhere, posted_redirect, token_status >>

\* The second statement of the code branch, and the 200 response.
do_GET_state ==
    /\ hpc = "write_state"
    /\ auth_state' = Get(parse_qs(hreq.query), "state", << None >>)[1]
    /\ hpc' = "idle"
    /\ hreq' = NoRequest
    /\ responses' = Append(responses, ResponseStatus(hreq))
    /\ UNCHANGED << auth_code, error, reqLog >>
    /\ UNCHANGED << occupied, port, server, serving, sockBound, pc, state,
                    auth_url, code, returned_state, flow_error, now,
                    access_token, refresh_token, token_data, outcome, result,
                    raised, exchange_calls, browser_opens, readStart, readEnd,
                    token_posts, probe >>
    /\ UNCHANGED << refresh_calls, live, Elsewhere, posted_redirect, token_status >>

\* The two overlapping calls of perform_oauth_flow the model follows.
CallIds == {"A", "B"}

\* A call that has not begun.
IdleCall ==
    [pc |-> "idle", port |-> 0, state |-> None, ticks |-> 0,
     result |-> << None, None, None >>, raised |-> None, delivered |-> << >>]

NoCalls == [f \in CallIds |-> IdleCall]

\* get_all_tasks has not been called.
NoTasksCall ==
    [pc |-> "idle", projects |-> << >>, i |-> 0, all_tasks |-> << >>,
     raised |-> None, fetched |-> << >>]

\* Requests do_GET has finished with.
Handled == IF hpc = "idle" THEN Len(reqLog) ELSE Len(reqLog) - 1

(***************************************************************************)
(* OAuthRedirectServer: the port search, start and stop.                   *)
(***************************************************************************)
\* OAuthRedirectServer.__init__'s default port.
DefaultPort == 8080
\* The number of ports _find_available_port probes.
PortWindow == 100

Window(start) == start .. (start + PortWindow - 1)

\* What other processes may hold when the flow starts: nothing, the
\* preferred port, or the whole search window.
OccupiedSets == { {}, {DefaultPort}, Window(DefaultPort) }

\* socket.bind succeeds on a port no socket is bound to.
CanBind(p) == p \notin occupied /\ ~(sockBound /\ p = port)

\* Faulty variant: the search starts one port too late.
find_available_port_skip_first(start, occ) ==
    LET free == ((start + 1) .. (start + PortWindow - 1)) \ occ IN
      IF free = {} THEN << >>
      ELSE << CHOOSE p \in free : \A q \in free : p <= q >>

\* _find_available_port: << p >> for the first port p of the window the
\* probe can bind, << >> for the RuntimeError raised when there is none.
find_available_port(start, occ) ==
    LET free == Window(start) \ occ IN
      IF free = {} THEN << >>
      ELSE << CHOOSE p \in free : \A q \in free : p <= q >>

\* Faulty variant: the default redirect_uri of TickTickAuth, whatever the
\* port.
redirect_uri_default(p) == << "http://", "localhost", ":", "8080", "/callback" >>

\* OAuthRedirectServer.redirect_uri
redirect_uri(p) == << "http://", "localhost", ":", ToString(p), "/callback" >>

\* stop(): shutdown() ends the serve_forever loop when a server is held.
ServingAfterStop(srv, running) == IF srv # None THEN FALSE ELSE running

(***************************************************************************)
(* TickTickAuth: the authorization URL and the token exchange.             *)
(***************************************************************************)
\* get_authorization_url: the query parameters of the URL.
AuthorizationUrl(client_id, uri, st) ==
    [ client_id |-> client_id, redirect_uri |-> uri, response_type |-> "code",
      scope |-> "tasks:read tasks:write", state |-> st ]

NoUrl == AuthorizationUrl("", << >>, None)

\* urllib.parse.quote_plus on the pieces of text the model uses: letters,
\* digits, "_", "-" and "." stay, ":" and "/" are percent-encoded, a space
\* becomes "+".
quote_plus(s) ==
    CASE s = "tasks:read tasks:write" -> "tasks%3Aread+tasks%3Awrite"
      [] s = "http://" -> "http%3A%2F%2F"
      [] s = ":" -> "%3A"
      [] s = "/callback" -> "%2Fcallback"
      [] OTHER -> s

\* The decoding the provider applies to a query value.
unquote_plus(s) ==
    CASE s = "tasks%3Aread+tasks%3Awrite" -> "tasks:read tasks:write"
      [] s = "http%3A%2F%2F" -> "http://"
      [] s = "%3A" -> ":"
      [] s = "%2Fcallback" -> "/callback"
      [] OTHER -> s

\* urlencode(params): every value quoted (the redirect URI piece by piece).
urlencode(params) ==
    [k \in DOMAIN params |->
        IF k = "redirect_uri"
        THEN [i \in DOMAIN params[k] |-> quote_plus(params[k][i])]
        ELSE quote_plus(params[k])]

\* Faulty variant: the state returned is not the one put in the URL.
get_authorization_url_other_state(client_id, uri, st) ==
    << urlencode(AuthorizationUrl(client_id, uri, st)), "S1" >>

\* get_authorization_url with the state st drawn by secrets.token_urlsafe:
\* the URL's query string and the state, as a pair.
get_authorization_url(client_id, uri, st) ==
    << urlencode(AuthorizationUrl(client_id, uri, st)), st >>

\* Answers of the token endpoint: a status and a JSON object that may or
\* may not hold access_token and refresh_token.
TokenJsons ==
    { [k \in ks |-> IF k = "access_token" THEN "AT1" ELSE "RT1"] :
          ks \in SUBSET {"access_token", "refresh_token"} }

TokenResponses ==
    { [status |-> 200, json |-> j] : j \in TokenJsons }
    \cup { [status |-> 400, json |-> [k \in {} |-> ""]] }

NoTokenData == [k \in {} |-> ""]

\* TokenStorage: the token file does not exist.
NoFile == [exists |-> FALSE, data |-> NoTokenData]

\* Faulty variant: the call of raise_for_status() is missing.
RaisesNever(resp) == FALSE

\* response.raise_for_status() raises on 4xx and 5xx.
RaisesForStatus(resp) == resp.status >= 400

(***************************************************************************)
(* perform_oauth_flow.                                                     *)
(***************************************************************************)
TimeoutMessage == "Authorization timed out"
MismatchMessage == "State mismatch - possible CSRF attack"

\* Faulty variant: the loop runs one more turn (<= for <).
WaitRunningInclusive(t) == t <= TimeoutTicks

\* The loop condition of wait_for_callback: time.time() - start < timeout.
WaitRunning(t) == t < TimeoutTicks

\* The loop body's test: auth_code or error.
CallbackSeen(c, e) == Truthy(c) \/ Truthy(e)

\* Faulty variant: the state check is left out.
DecisionNoStateCheck(c, rs, e, st) ==
    IF Truthy(e) THEN [next |-> "return", triple |-> << None, None, e >>]
    ELSE IF ~Truthy(c)
        THEN [next |-> "return",
              triple |-> << None, None, "Authorization timed out" >>]
    ELSE [next |-> "exchange", triple |-> << None, None, None >>]

\* Faulty variant: a callback without a state parameter passes the state check.
DecisionAbsentStateAccepted(c, rs, e, st) ==
    IF Truthy(e) THEN [next |-> "return", triple |-> << None, None, e >>]
    ELSE IF ~Truthy(c)
        THEN [next |-> "return",
              triple |-> << None, None, "Authorization timed out" >>]
    ELSE IF rs # None /\ rs # st
        THEN [next |-> "return",
              triple |-> << None, None, "State mismatch - possible CSRF attack" >>]
    ELSE [next |-> "exchange", triple |-> << None, None, None >>]

\* The checks between the wait and the exchange: the triple to return, or
\* "exchange" when the flow goes on to the token exchange.
Decision(c, rs, e, st) ==
    IF Truthy(e) THEN [next |-> "return", triple |-> << None, None, e >>]
    ELSE IF ~Truthy(c)
        THEN [next |-> "return", triple |-> << None, None, TimeoutMessage >>]
    ELSE IF rs # st
        THEN [next |-> "return", triple |-> << None, None, MismatchMessage >>]
    ELSE [next |-> "exchange", triple |-> << None, None, None >>]

\* Faulty variant: the access token is looked up under a key the answer lacks.
TokenTripleWrongKey(td) ==
    << Get(td, "token", None), Get(td, "refresh_token", None), None >>

\* The triple returned after the exchange.
TokenTriple(td) ==
    << Get(td, "access_token", None), Get(td, "refresh_token", None), None >>

\* Faulty variant: a failed exchange sends the coordinator back to the wait.
AfterRaiseRetry == "wait"

\* Faulty variant: no finally clause, the exception leaves the function at once.
AfterRaiseNoFinally == "done"

\* Where an exception raised inside the try block goes: the finally clause.
AfterRaise == "finally"

FlowVars == << pc, state, auth_url, code, returned_state, flow_error, now,
               access_token, refresh_token, token_data, outcome, result,
               raised, exchange_calls, browser_opens, readStart, readEnd >>

\* Faulty variant: start() leaves the class attribute as it finds it.
start_no_reset(v) == v

\* OAuthCallbackHandler.auth_code = None, and the same for auth_state and
\* error: the value start() gives a class attribute holding v.
start_reset(v) == None

\* server = OAuthRedirectServer(); server.start().  start() resets the
\* handler's class attributes, searches a port, binds the HTTPServer and
\* starts the serve_forever thread.  The search raises RuntimeError when the
\* window is full; the bind raises OSError when another process took the
\* port after the probe released it.  Both happen before the try block.
Start ==
    /\ pc = "idle"
    /\ auth_code' = start_reset(auth_code)
    /\ auth_state' = start_reset(auth_state)
    /\ error' = start_reset(error)
    /\ probe' = find_available_port(port, occupied)
    /\ LET p == find_available_port(port, occupied) IN
         IF p = << >>
         THEN /\ raised' = "RuntimeError"
              /\ outcome' = "raised"
              /\ pc' = "done"
              /\ UNCHANGED << occupied, port, server, serving, sockBound,
                              live >>
         ELSE /\ port' = p[1]
              /\ \E taken \in BOOLEAN :
                   IF taken
                   THEN /\ occupied' = occupied \cup {p[1]}
                        /\ raised' = "OSError"
                        /\ outcome' = "raised"
                        /\ pc' = "done"
                        /\ UNCHANGED << server, serving, sockBound, live >>
                   ELSE /\ server' = "HTTPServer"
                        /\ serving' = TRUE
                        /\ live' = live \cup {flows}
                        /\ sockBound' = TRUE
                        /\ pc' = "auth"
                        /\ UNCHANGED << occupied, raised, outcome >>
    /\ UNCHANGED << hpc, hreq, reqLog, state, auth_url, code, returned_state,
                    flow_error, now, access_token, refresh_token, token_data,
                    result, exchange_calls, browser_opens, readStart,
                    readEnd, responses, token_posts >>
    /\ UNCHANGED << refresh_calls, Elsewhere, posted_redirect, token_status >>

\* auth = TickTickAuth(client_id, client_secret, server.redirect_uri)
\* auth_url, state = auth.get_authorization_url()
GetAuthorizationUrl ==
    /\ pc = "auth"
    /\ \E st \in States :
         LET r == get_authorization_url("client", redirect_uri(port), st) IN
           /\ auth_url' = r[1]
           /\ state' = r[2]
    /\ pc' = "browser"
    /\ UNCHANGED << auth_code, auth_state, error, hpc, hreq, reqLog,
                    responses >>
    /\ UNCHANGED << occupied, port, server, serving, sockBound, probe,
                    token_posts >>
    /\ UNCHANGED << code, returned_state, flow_error, now, access_token,
                    refresh_token, token_data, outcome, result, raised,
                    exchange_calls, browser_opens, readStart, readEnd >>
    /\ UNCHANGED << refresh_calls, live, Elsewhere, posted_redirect, token_status >>

\* webbrowser.open(auth_url): it returns, or it raises.
OpenBrowser ==
    /\ pc = "browser"
    /\ browser_opens' = browser_opens + 1
    /\ \E ok \in BOOLEAN :
         IF ok
         THEN /\ pc' = "wait"
              /\ UNCHANGED raised
         ELSE /\ pc' = AfterRaise
              /\ raised' = "webbrowser.Error"
    /\ UNCHANGED << auth_code, auth_state, error, hpc, hreq, reqLog,
                    responses >>
    /\ UNCHANGED << occupied, port, server, serving, sockBound, probe,
                    token_posts >>
    /\ UNCHANGED << state, auth_url, code, returned_state, flow_error, now,
                    access_token, refresh_token, token_data, outcome, result,
                    exchange_calls, readStart, readEnd >>
    /\ UNCHANGED << refresh_calls, live, Elsewhere, posted_redirect, token_status >>

\* One turn of wait_for_callback's loop.  While the deadline has not passed:
\* a seen callback sleeps 0.2 s and leaves the loop, otherwise the loop
\* sleeps 0.1 s.  A sleep lasts its length plus a jitter.  The test
\* "auth_code or error" is taken as one step: whatever a write between its
\* two reads makes it answer, it also answers right before or after that
\* write.
Wait ==
    /\ pc = "wait"
    /\ IF WaitRunning(now)
       THEN \E j \in 0 .. MaxJitter :
              IF CallbackSeen(auth_code, error)
              THEN /\ now' = now + 2 + j
                   /\ pc' = "read_code"
              ELSE /\ now' = now + 1 + j
                   /\ pc' = "wait"
       ELSE /\ pc' = "read_code"
            /\ UNCHANGED now
    /\ UNCHANGED << auth_code, auth_state, error, hpc, hreq, reqLog,
                    responses >>
    /\ UNCHANGED << occupied, port, server, serving, sockBound, probe,
                    token_posts >>
    /\ UNCHANGED << state, auth_url, code, returned_state, flow_error,
                    access_token, refresh_token, token_data, outcome, result,
                    raised, exchange_calls, browser_opens, readStart,
                    readEnd >>
    /\ UNCHANGED << refresh_calls, live, Elsewhere, posted_redirect, token_status >>

\* The returned tuple of wait_for_callback is built by three reads.
ReadCode ==
    /\ pc = "read_code"
    /\ code' = auth_code
    /\ readStart' = Handled
    /\ pc' = "read_state"
    /\ UNCHANGED << auth_code, auth_state, error, hpc, hreq, reqLog,
                    responses >>
    /\ UNCHANGED << occupied, port, server, serving, sockBound, probe,
                    token_posts >>
    /\ UNCHANGED << state, auth_url, returned_state, flow_error, now,
                    access_token, refresh_token, token_data, outcome, result,
                    raised, exchange_calls, browser_opens, readEnd >>
    /\ UNCHANGED << refresh_calls, live, Elsewhere, posted_redirect, token_status >>

ReadState ==
    /\ pc = "read_state"
    /\ returned_state' = auth_state
    /\ pc' = "read_error"
    /\ UNCHANGED << auth_code, auth_state, error, hpc, hreq, reqLog,
                    responses >>
    /\ UNCHANGED << occupied, port, server, serving, sockBound, probe,
                    token_posts >>
    /\ UNCHANGED << state, auth_url, code, flow_error, now, access_token,
                    refresh_token, token_data, outcome, result, raised,
                    exchange_calls, browser_opens, readStart, readEnd >>
    /\ UNCHANGED << refresh_calls, live, Elsewhere, posted_redirect, token_status >>

ReadError ==
    /\ pc = "read_error"
    /\ flow_error' = error
    /\ readEnd' = Len(reqLog)
    /\ pc' = "check"
    /\ UNCHANGED << auth_code, auth_state, error, hpc, hreq, reqLog,
                    responses >>
    /\ UNCHANGED << occupied, port, server, serving, sockBound, probe,
                    token_posts >>
    /\ UNCHANGED << state, auth_url, code, returned_state, now, access_token,
                    refresh_token, token_data, outcome, result, raised,
                    exchange_calls, browser_opens, readStart >>
    /\ UNCHANGED << refresh_calls, live, Elsewhere, posted_redirect, token_status >>

\* if error / if not code / if returned_state != state
Check ==
    /\ pc = "check"
    /\ LET d == Decision(code, returned_state, flow_error, state) IN
         IF d.next = "return"
         THEN /\ result' = d.triple
              /\ outcome' = "returned"
              /\ pc' = "finally"
         ELSE /\ pc' = "exchange"
              /\ UNCHANGED << result, outcome >>
    /\ UNCHANGED << auth_code, auth_state, error, hpc, hreq, reqLog,
                    responses >>
    /\ UNCHANGED << occupied, port, server, serving, sockBound, probe,
                    token_posts >>
    /\ UNCHANGED << state, auth_url, code, returned_state, flow_error, now,
                    access_token, refresh_token, token_data, raised,
                    exchange_calls, browser_opens, readStart, readEnd >>
    /\ UNCHANGED << refresh_calls, live, Elsewhere, posted_redirect, token_status >>

\* Faulty variant: the flow writes the tokens it received to the token file.
StoredAfterExchangeSaves(file, td) == [exists |-> TRUE, data |-> td]

\* The token file after exchange_code and the return statement: neither
\* holds a TokenStorage, the file is what it was.
StoredAfterExchange(file, td) == file

\* token_data = await auth.exchange_code(code), and the return after it.
\* exchange_code raises on a 4xx/5xx answer; otherwise it stores the tokens
\* of the answer in the auth object and returns the answer's JSON.
ExchangeCode ==
    /\ pc = "exchange"
    /\ exchange_calls' = exchange_calls + 1
    /\ posted_redirect' = redirect_uri(port)
    /\ token_posts' = token_posts + 1
    /\ \E resp \in TokenResponses :
         /\ token_status' = resp.status
         /\ IF RaisesForStatus(resp)
            THEN /\ raised' = "HTTPStatusError"
                 /\ pc' = AfterRaise
                 /\ UNCHANGED << token_data, access_token, refresh_token,
                                 result, outcome >>
            ELSE /\ token_data' = resp.json
                 /\ access_token' = Get(resp.json, "access_token", None)
                 /\ refresh_token' = Get(resp.json, "refresh_token", None)
                 /\ result' = TokenTriple(resp.json)
                 /\ outcome' = "returned"
                 /\ pc' = "finally"
                 /\ UNCHANGED raised
    /\ UNCHANGED << auth_code, auth_state, error, hpc, hreq, reqLog,
                    responses >>
    /\ UNCHANGED << occupied, port, server, serving, sockBound, probe >>
    /\ UNCHANGED << state, auth_url, code, returned_state, flow_error, now,
                    browser_opens, readStart, readEnd >>
    /\ stored' = StoredAfterExchange(stored, token_data')
    /\ UNCHANGED << refresh_calls, live, flows, reqBase, loop_steps, screen,
                    starts, client, calls,
                    storage_log, tasks_call >>
    /\ UNCHANGED CliVars

\* finally: server.stop().  shutdown() returns once serve_forever has left
\* its loop, which it does between requests; then the references to the
\* server and its thread are dropped.  The socket is not closed here.
Stop ==
    /\ pc = "finally"
    /\ hpc = "idle"
    /\ serving' = ServingAfterStop(server, serving)
    /\ live' = IF server # None THEN live \ {flows} ELSE live
    /\ server' = None
    /\ outcome' = IF raised # None THEN "raised" ELSE outcome
    /\ pc' = "done"
    /\ UNCHANGED << auth_code, auth_state, error, hpc, hreq, reqLog,
                    responses >>
    /\ UNCHANGED << occupied, port, sockBound, probe, token_posts >>
    /\ UNCHANGED << state, auth_url, code, returned_state, flow_error, now,
                    access_token, refresh_token, token_data, result, raised,
                    exchange_calls, browser_opens, readStart, readEnd >>
    /\ UNCHANGED << refresh_calls, Elsewhere, posted_redirect, token_status >>

\* The HTTPServer object is unreferenced after stop(); its listening socket
\* is closed when the object is finalized, at a moment the code does not
\* control (stop() never calls server_close()).
FinalizeServer ==
    /\ server = None
    /\ ~serving
    /\ sockBound
    /\ sockBound' = FALSE
    /\ UNCHANGED << auth_code, auth_state, error, hpc, hreq, reqLog,
                    responses >>
    /\ UNCHANGED << occupied, port, server, serving, probe, token_posts >>
    /\ UNCHANGED FlowVars
    /\ UNCHANGED << refresh_calls, live, Elsewhere, posted_redirect, token_status >>

Init ==
    /\ auth_code = None
    /\ auth_state = None
    /\ error = None
    /\ occupied \in OccupiedSets
    /\ port = DefaultPort
    /\ server = None
    /\ serving = FALSE
    /\ sockBound = FALSE
    /\ pc = "idle"
    /\ hpc = "idle"
    /\ hreq = NoRequest
    /\ state = None
    /\ auth_url = NoUrl
    /\ code = None
    /\ returned_state = None
    /\ flow_error = None
    /\ now = 0
    /\ access_token = None
    /\ refresh_token = None
    /\ token_data = NoTokenData
    /\ outcome = "running"
    /\ result = << None, None, None >>
    /\ raised = None
    /\ exchange_calls = 0
    /\ browser_opens = 0
    /\ reqLog = << >>
    /\ readStart = -1
    /\ readEnd = -1
    /\ responses = << >>
    /\ token_posts = 0
    /\ probe = << >>
    /\ refresh_calls = 0
    /\ flows = 1
    /\ reqBase = 0
    /\ live = {}
    /\ loop_steps = 0
    /\ stored = NoFile
    /\ posted_redirect = << >>
    /\ token_status = 0
    /\ screen = "login"
    /\ starts = 1
    /\ client = None
    /\ calls = NoCalls
    /\ storage_log = << >>
    /\ tasks_call = NoTasksCall
    /\ argv = << >>
    /\ launched = << >>
    /\ func = << >>
    /\ exit_code = -1
    /\ printed = << >>
    /\ api_calls = 0

Next ==
    \/ Start
    \/ GetAuthorizationUrl
    \/ OpenBrowser
    \/ Wait
    \/ ReadCode
    \/ ReadState
    \/ ReadError
    \/ Check
    \/ ExchangeCode
    \/ Stop
    \/ FinalizeServer
    \/ \E r \in Requests : do_GET(r)
    \/ do_GET_state

Spec == Init /\ [][Next]_vars

(***************************************************************************)
(* The port allocator alone: _find_available_port called on a server whose *)
(* port is the preferred start port, for many sets of occupied ports.      *)
(***************************************************************************)
\* The occupied sets differ on the first MaxPrefix ports from DefaultPort.
MaxPrefix == 5

PortPrefix == DefaultPort .. (DefaultPort + MaxPrefix - 1)

\* The ports after the prefix, up to one port past DefaultPort's window.
PortTail == (DefaultPort + MaxPrefix) .. (DefaultPort + PortWindow)

\* Any part of the prefix, with the tail free, occupied, or occupied but
\* for the last port of the window or the first port after it.
PortOccupiedSets ==
    { S \cup T : S \in SUBSET PortPrefix,
                 T \in { {}, PortTail, PortTail \ {DefaultPort + PortWindow - 1},
                         PortTail \ {DefaultPort + PortWindow} } }

\* Preferred ports OAuthRedirectServer may be constructed with.
StartPorts == { DefaultPort, DefaultPort + 1 }

PortInit ==
    /\ auth_code = None
    /\ auth_state = None
    /\ error = None
    /\ occupied \in PortOccupiedSets
    /\ port \in StartPorts
    /\ server = None
    /\ serving = FALSE
    /\ sockBound = FALSE
    /\ pc = "idle"
    /\ hpc = "idle"
    /\ hreq = NoRequest
    /\ state = None
    /\ auth_url = NoUrl
    /\ code = None
    /\ returned_state = None
    /\ flow_error = None
    /\ now = 0
    /\ access_token = None
    /\ refresh_token = None
    /\ token_data = NoTokenData
    /\ outcome = "running"
    /\ result = << None, None, None >>
    /\ raised = None
    /\ exchange_calls = 0
    /\ browser_opens = 0
    /\ reqLog = << >>
    /\ readStart = -1
    /\ readEnd = -1
    /\ responses = << >>
    /\ token_posts = 0
    /\ probe = << >>
    /\ refresh_calls = 0
    /\ flows = 1
    /\ reqBase = 0
    /\ live = {}
    /\ loop_steps = 0
    /\ stored = NoFile
    /\ posted_redirect = << >>
    /\ token_status = 0
    /\ screen = "login"
    /\ starts = 1
    /\ client = None
    /\ calls = NoCalls
    /\ storage_log = << >>
    /\ tasks_call = NoTasksCall
    /\ argv = << >>
    /\ launched = << >>
    /\ func = << >>
    /\ exit_code = -1
    /\ printed = << >>
    /\ api_calls = 0

\* One call of server._find_available_port(): it returns the port found or
\* raises RuntimeError; self.port is left alone.
FindAvailablePort ==
    /\ pc = "idle"
    /\ probe' = find_available_port(port, occupied)
    /\ raised' = IF find_available_port(port, occupied) = << >>
                 THEN "RuntimeError" ELSE None
    /\ pc' = "probed"
    /\ UNCHANGED << auth_code, auth_state, error, hpc, hreq, reqLog,
                    responses >>
    /\ UNCHANGED << occupied, port, server, serving, sockBound, token_posts >>
    /\ UNCHANGED << state, auth_url, code, returned_state, flow_error, now,
                    access_token, refresh_token, token_data, outcome, result,
                    exchange_calls, browser_opens, readStart, readEnd >>
    /\ UNCHANGED << refresh_calls, live, Elsewhere, posted_redirect, token_status >>

PortNext == FindAvailablePort

PortSpec == PortInit /\ [][PortNext]_vars

(***************************************************************************)
(* Properties.                                                             *)
(***************************************************************************)
\* The flow has ended, by a return or by an exception.
Ended == pc = "done"

\* wait_for_callback has returned to perform_oauth_flow.
WaitReturned == readEnd >= 0

\* The indexes of the /callback requests among the first n of reqLog.
Callbacks(n) == { i \in 1 .. n : reqLog[i].path = "/callback" }

\* The /callback requests do_GET had begun when the wait returned.
Captured == Callbacks(readEnd)

\* Request r carries a non-blank code and the state the flow generated.
ValidCode(r) ==
    /\ Branch(r) = "code"
    /\ "state" \in DOMAIN r.query
    /\ r.query["state"] = state

\* C1: when the listener received a /callback request with a code and the
\* generated state, and the token endpoint answered the exchange with an
\* access token AT and a refresh token RT, the flow returns (AT, RT, None).
C1_SuccessPath ==
    ( /\ Ended
      /\ \E i \in 1 .. Len(reqLog) : ValidCode(reqLog[i])
      /\ DOMAIN token_data = {"access_token", "refresh_token"} )
    => ( /\ outcome = "returned"
         /\ result = << token_data["access_token"],
                        token_data["refresh_token"], None >> )

C1_Witness ==
    /\ Ended
    /\ \E i \in 1 .. Len(reqLog) : ValidCode(reqLog[i])
    /\ exchange_calls = 1
    /\ result = << "AT1", "RT1", None >>

\* C2 as stated: when the wait returned a code (and no error) with a state
\* that differs from the generated one, the flow returns
\* (None, None, "State mismatch - possible CSRF attack.").
C2_Original ==
    ( /\ Ended
      /\ WaitReturned
      /\ Truthy(code)
      /\ ~Truthy(flow_error)
      /\ returned_state # state )
    => ( /\ outcome = "returned"
         /\ result = << None, None, "State mismatch - possible CSRF attack." >> )

\* C2 amended: in that case the flow returns
\* (None, None, "State mismatch - possible CSRF attack"): the message of the
\* code ends without a full stop.
C2_StateMismatch ==
    ( /\ Ended
      /\ WaitReturned
      /\ Truthy(code)
      /\ ~Truthy(flow_error)
      /\ returned_state # state )
    => ( /\ outcome = "returned"
         /\ result = << None, None, "State mismatch - possible CSRF attack" >>
         /\ exchange_calls = 0 )

C2_Witness ==
    /\ Ended
    /\ Captured # {}
    /\ \A i \in Captured : Branch(reqLog[i]) = "code" /\ ~ValidCode(reqLog[i])
    /\ Truthy(code)
    /\ Truthy(returned_state)
    /\ returned_state # state
    /\ result = << None, None, "State mismatch - possible CSRF attack" >>

C4_Message(r) ==
    IF "error_description" \in DOMAIN r.query
    THEN r.query["error_description"]
    ELSE r.query["error"]

\* C4 as stated: when the only /callback request the listener received
\* before the wait returned carries an error parameter, the flow returns
\* (None, None, m), m being the error_description value if present and the
\* error value otherwise, and the exchange is not called.
C4_Original ==
    ( /\ Ended
      /\ Cardinality(Captured) = 1
      /\ \A i \in Captured : "error" \in DOMAIN reqLog[i].query )
    => ( /\ outcome = "returned"
         /\ \A i \in Captured : result = << None, None, C4_Message(reqLog[i]) >>
         /\ exchange_calls = 0 )

\* The message of the code for request r: a blank parameter counts as
\* absent.
C4_NonBlankMessage(r) ==
    IF "error_description" \in DOMAIN r.query /\ r.query["error_description"] # ""
    THEN r.query["error_description"]
    ELSE r.query["error"]

\* C4 amended: when the only /callback request received before the wait
\* returned carries a non-blank error parameter and no non-blank code
\* parameter, the flow returns (None, None, m), m being the
\* error_description value if present and not blank and the error value
\* otherwise, and the exchange is not called.
C4_ErrorPassthrough ==
    ( /\ Ended
      /\ Cardinality(Captured) = 1
      /\ \A i \in Captured :
           /\ "error" \in DOMAIN reqLog[i].query
           /\ reqLog[i].query["error"] # ""
           /\ ~("code" \in DOMAIN reqLog[i].query /\ reqLog[i].query["code"] # "") )
    => ( /\ outcome = "returned"
         /\ \A i \in Captured :
              result = << None, None, C4_NonBlankMessage(reqLog[i]) >>
         /\ exchange_calls = 0 )

C4_Witness ==
    /\ Ended
    /\ Cardinality(Captured) = 1
    /\ \A i \in Captured :
         /\ "error" \in DOMAIN reqLog[i].query
         /\ "error_description" \in DOMAIN reqLog[i].query
         /\ reqLog[i].query["error"] = "access_denied"
         /\ reqLog[i].query["error_description"] = "User declined"
    /\ result = << None, None, "User declined" >>

\* C5: when no request to /callback reached the listener before the wait
\* returned, the flow returns (None, None, "Authorization timed out"), the
\* exchange is not called, and the wait has lasted at most the timeout plus
\* the overshoot of its last sleep.
C5_Timeout ==
    (Ended /\ WaitReturned /\ Captured = {})
    => ( /\ outcome = "returned"
         /\ result = << None, None, "Authorization timed out" >>
         /\ exchange_calls = 0
         /\ now >= TimeoutTicks
         /\ now <= TimeoutTicks + MaxJitter )

C5_Witness ==
    /\ Ended
    /\ WaitReturned
    /\ Captured = {}
    /\ now = TimeoutTicks + MaxJitter
    /\ result = << None, None, "Authorization timed out" >>

\* C6: when the flow has ended, by a return or by an exception of the
\* browser launch or of the exchange, the serving loop of its listener has
\* been stopped.
C6_ListenerStopped == Ended => ~serving

C6_Witness ==
    /\ Ended
    /\ raised \in {"webbrowser.Error", "HTTPStatusError"}
    /\ outcome = "raised"
    /\ ~serving

\* C7: after the flow has ended the listener's port is no longer bound by
\* the flow.
C7_PortReleased == Ended => ~sockBound

\* C8: when a request with a code and the generated state and then a
\* request with an error were both handled before the coordinator read the
\* result, the coordinator observes the code and not the error.
C8_FirstWriteWins ==
    ( /\ Ended
      /\ readStart = 2
      /\ readEnd = 2
      /\ ValidCode(reqLog[1])
      /\ Branch(reqLog[2]) = "error" )
    => ( /\ code = reqLog[1].query["code"]
         /\ ~Truthy(flow_error)
         /\ result[3] # CallbackError(parse_qs(reqLog[2].query)) )

\* C9: at most one of auth_code and error is populated, and when the wait
\* returned after a callback was received exactly one of the two it read is.
C9_ExactlyOneCaptured ==
    /\ ~(Truthy(auth_code) /\ Truthy(error))
    /\ (WaitReturned /\ readStart = readEnd /\ Captured # {})
         => (Truthy(code) # Truthy(flow_error))

\* C10: of a returned triple exactly one of access_token and error is
\* non-empty.
C10_TokenOrError ==
    (Ended /\ outcome = "returned")
    => (Truthy(result[1]) # Truthy(result[3]))

\* C11: when the token endpoint answers the code exchange with a non-2xx
\* status, no exception leaves perform_oauth_flow: the flow returns
\* (None, None, message).
C11_ExchangeFailureReturned ==
    (Ended /\ exchange_calls > 0)
    => (outcome = "returned" /\ raised = None)

\* C12: a failure of the listener's startup (no bindable port in the
\* window, or the bind failing after the probe) or of the browser launch
\* does not leave perform_oauth_flow as an exception: the flow returns
\* (None, None, message).
C12_StartupFailureReturned ==
    (Ended /\ exchange_calls = 0)
    => ( /\ outcome = "returned"
         /\ raised = None
         /\ result[1] = None /\ result[2] = None /\ Truthy(result[3]) )

\* C13: for every set of occupied ports the allocator returns the smallest
\* port of [start, start+100) that is not occupied, so never a port outside
\* the window nor an occupied one, and it fails with an error when every
\* port of the window is occupied.
C13_PortSearch ==
    pc = "probed"
    => LET free == { p \in port .. (port + 99) : p \notin occupied } IN
         /\ free = {} => (probe = << >> /\ raised = "RuntimeError")
         /\ free # {} => ( /\ Len(probe) = 1
                           /\ probe[1] \in free
                           /\ \A q \in free : probe[1] <= q
                           /\ raised = None )

\* A port is found after occupied ones were skipped, or the window is full
\* while the port right after it is free.
C13_Witness ==
    /\ pc = "probed"
    /\ \/ Len(probe) = 1 /\ probe[1] = port + 99
       \/ probe = << >> /\ (port + 100) \notin occupied

\* The state the provider reads in the URL the browser was opened with.
UrlState == unquote_plus(auth_url.state)

\* C14: the state in the authorization URL opened in the browser is the
\* state the callback's state parameter is compared against: the exchange
\* is called only when the returned state equals the URL's state, and the
\* flow reports a state mismatch only when it differs from it.
C14_StateRoundTrip ==
    /\ browser_opens > 0 => UrlState = state
    /\ exchange_calls > 0 => returned_state = UrlState
    /\ (Ended /\ outcome = "returned"
          /\ result[3] = "State mismatch - possible CSRF attack")
         => returned_state # UrlState

C14_Witness ==
    /\ exchange_calls > 0
    /\ UrlState = "S2"
    /\ returned_state = "S2"

\* The last request of reqLog, once do_GET has finished with it.
LastHandled == reqLog[Len(reqLog)]

\* C15 as stated: once do_GET has handled a GET to /callback that carries a
\* code parameter, auth_code is that code, auth_state is the state
\* parameter (None when the request has none), and the response was 200.
C15_Original ==
    ( /\ hpc = "idle"
      /\ Len(reqLog) > 0
      /\ LastHandled.path = "/callback"
      /\ "code" \in DOMAIN LastHandled.query )
    => ( /\ auth_code = LastHandled.query["code"]
         /\ auth_state = Get(LastHandled.query, "state", None)
         /\ responses[Len(reqLog)] = 200 )

\* C15 amended: once do_GET has handled a GET to /callback that carries a
\* code parameter that is not blank, auth_code is that code, auth_state is
\* the state parameter, or None when the request has none or a blank one,
\* and the response was 200.
C15_CodeRequest ==
    ( /\ hpc = "idle"
      /\ Len(reqLog) > 0
      /\ LastHandled.path = "/callback"
      /\ "code" \in DOMAIN LastHandled.query
      /\ LastHandled.query["code"] # "" )
    => ( /\ auth_code = LastHandled.query["code"]
         /\ auth_state = IF Get(LastHandled.query, "state", "") = ""
                         THEN None ELSE LastHandled.query["state"]
         /\ responses[Len(reqLog)] = 200 )

C15_Witness ==
    /\ hpc = "idle"
    /\ Len(reqLog) = 2
    /\ Branch(reqLog[1]) = "code"
    /\ Branch(LastHandled) = "code"
    /\ "state" \notin DOMAIN LastHandled.query
    /\ auth_code = "c1"
    /\ auth_state = None
    /\ responses[2] = 200

\* C16: when the only /callback request the listener received before the
\* wait returned carries neither a code nor an error parameter, the
\* listener answered it with 400 and the flow returns
\* (None, None, "No authorization code received") without calling the
\* exchange; as long as no later request has been handled, the recorded
\* error is that message.
C16_NeitherRequest ==
    ( /\ Ended
      /\ Cardinality(Captured) = 1
      /\ \A i \in Captured :
           /\ "code" \notin DOMAIN reqLog[i].query
           /\ "error" \notin DOMAIN reqLog[i].query )
    => ( /\ outcome = "returned"
         /\ result = << None, None, "No authorization code received" >>
         /\ exchange_calls = 0
         /\ \A i \in Captured :
              /\ responses[i] = 400
              /\ i = Len(reqLog) => error = NoCodeMessage )

C16_Witness ==
    /\ Ended
    /\ Len(reqLog) = 1
    /\ Captured = {1}
    /\ DOMAIN reqLog[1].query = {}
    /\ responses = << 400 >>
    /\ error = NoCodeMessage
    /\ result = << None, None, "No authorization code received" >>

\* The step is do_GET taking a request whose path is not /callback.
OtherPathStep ==
    /\ Len(reqLog') = Len(reqLog) + 1
    /\ reqLog'[Len(reqLog')].path # "/callback"

\* C17: a GET to a path other than /callback is answered 404 and leaves
\* auth_code, auth_state and error as they were, so the wait loop's test
\* and the coordinator's position are what they were before the request;
\* a flow whose wait returned and that only ever received such requests
\* ends with the timeout result.
C17_OtherPath ==
    /\ [][ OtherPathStep
           => ( /\ responses' = Append(responses, 404)
                /\ auth_code' = auth_code
                /\ auth_state' = auth_state
                /\ error' = error
                /\ CallbackSeen(auth_code', error') = CallbackSeen(auth_code, error)
                /\ pc' = pc ) ]_vars
    /\ []( (Ended /\ WaitReturned /\ Len(reqLog) > 0 /\ Callbacks(Len(reqLog)) = {})
           => result = << None, None, "Authorization timed out" >> )

C17_Witness ==
    /\ pc = "wait"
    /\ Len(reqLog) = 1
    /\ reqLog[1].path = "/favicon.ico"
    /\ responses = << 404 >>
    /\ auth_code = None
    /\ error = None
    /\ now > 0

(***************************************************************************)
(* TickTickAuth on its own: one object, created without tokens, on which   *)
(* exchange_code, the access_token setter and refresh_access_token are     *)
(* called in any order.  access_token and refresh_token are the object's   *)
(* _access_token and _refresh_token, token_data the dict the last call     *)
(* returned, raised the exception of the last call.                        *)
(***************************************************************************)
MaxCalls == 3

\* The bodies a 2xx answer to the refresh POST can carry: with or without
\* access_token, and refresh_token left out, new, null or blank.
RefreshJsons ==
    { [k \in {"access_token"} |-> "AT2"],
      [k \in {"access_token", "refresh_token"} |->
          IF k = "access_token" THEN "AT2" ELSE "RT2"],
      [k \in {"access_token", "refresh_token"} |->
          IF k = "access_token" THEN "AT2" ELSE None],
      [k \in {"access_token", "refresh_token"} |->
          IF k = "access_token" THEN "AT2" ELSE ""],
      [k \in {} |-> ""] }

RefreshResponses ==
    { [status |-> 200, json |-> j] : j \in RefreshJsons }
    \cup { [status |-> 401, json |-> [k \in {} |-> ""]] }

\* Faulty variant: the guard of refresh_access_token is left out.
HoldsRefreshTokenAlways(rt) == TRUE

\* The negation of `not self._refresh_token`.
HoldsRefreshToken(rt) == Truthy(rt)

\* if "refresh_token" in token_data:
\*     self._refresh_token = token_data.get("refresh_token")
RefreshedToken(rt, json) ==
    IF "refresh_token" \in DOMAIN json THEN json["refresh_token"] ELSE rt

RefreshInit ==
    /\ auth_code = None
    /\ auth_state = None
    /\ error = None
    /\ occupied = {}
    /\ port = DefaultPort
    /\ server = None
    /\ serving = FALSE
    /\ sockBound = FALSE
    /\ pc = "idle"
    /\ hpc = "idle"
    /\ hreq = NoRequest
    /\ state = None
    /\ auth_url = NoUrl
    /\ code = None
    /\ returned_state = None
    /\ flow_error = None
    /\ now = 0
    /\ access_token = None
    /\ refresh_token = None
    /\ token_data = NoTokenData
    /\ outcome = "running"
    /\ result = << None, None, None >>
    /\ raised = None
    /\ exchange_calls = 0
    /\ browser_opens = 0
    /\ reqLog = << >>
    /\ readStart = -1
    /\ readEnd = -1
    /\ responses = << >>
    /\ token_posts = 0
    /\ probe = << >>
    /\ refresh_calls = 0
    /\ flows = 1
    /\ reqBase = 0
    /\ live = {}
    /\ loop_steps = 0
    /\ stored = NoFile
    /\ posted_redirect = << >>
    /\ token_status = 0
    /\ screen = "login"
    /\ starts = 1
    /\ client = None
    /\ calls = NoCalls
    /\ storage_log = << >>
    /\ tasks_call = NoTasksCall
    /\ argv = << >>
    /\ launched = << >>
    /\ func = << >>
    /\ exit_code = -1
    /\ printed = << >>
    /\ api_calls = 0

\* What none of the TickTickAuth methods touches.
AuthFrame ==
    UNCHANGED << auth_code, auth_state, error, occupied, port, server,
                 serving, sockBound, pc, hpc, hreq, state, auth_url, code,
                 returned_state, flow_error, now, outcome, result,
                 browser_opens, reqLog, readStart, readEnd, responses,
                 probe, live, Elsewhere >>

\* await auth.exchange_code(code)
AuthExchangeCode ==
    /\ exchange_calls + refresh_calls < MaxCalls
    /\ exchange_calls' = exchange_calls + 1
    /\ posted_redirect' = redirect_uri(DefaultPort)
    /\ token_posts' = token_posts + 1
    /\ \E resp \in TokenResponses :
         /\ token_status' = resp.status
         /\ IF RaisesForStatus(resp)
            THEN /\ raised' = "HTTPStatusError"
                 /\ UNCHANGED << token_data, access_token, refresh_token >>
            ELSE /\ raised' = None
                 /\ token_data' = resp.json
                 /\ access_token' = Get(resp.json, "access_token", None)
                 /\ refresh_token' = Get(resp.json, "refresh_token", None)
    /\ UNCHANGED refresh_calls
    /\ AuthFrame

\* auth.access_token = value
SetAccessToken ==
    /\ access_token # "AT0"
    /\ access_token' = "AT0"
    /\ UNCHANGED << refresh_token, token_data, raised, exchange_calls,
                    token_posts, refresh_calls, posted_redirect, token_status >>
    /\ AuthFrame

\* await auth.refresh_access_token()
RefreshAccessToken ==
    /\ exchange_calls + refresh_calls < MaxCalls
    /\ refresh_calls' = refresh_calls + 1
    /\ IF ~HoldsRefreshToken(refresh_token)
       THEN /\ raised' = "ValueError"
            /\ UNCHANGED << token_data, access_token, refresh_token,
                            token_posts, token_status >>
       ELSE /\ token_posts' = token_posts + 1
            /\ \E resp \in RefreshResponses :
                 /\ token_status' = resp.status
                 /\ IF RaisesForStatus(resp)
                    THEN /\ raised' = "HTTPStatusError"
                         /\ UNCHANGED << token_data, access_token, refresh_token >>
                    ELSE /\ raised' = None
                         /\ token_data' = resp.json
                         /\ access_token' = Get(resp.json, "access_token", None)
                         /\ refresh_token' = RefreshedToken(refresh_token, resp.json)
    /\ UNCHANGED << exchange_calls, posted_redirect >>
    /\ AuthFrame

RefreshNext ==
    \/ AuthExchangeCode
    \/ SetAccessToken
    \/ RefreshAccessToken

RefreshSpec == RefreshInit /\ [][RefreshNext]_vars

\* The step is one call of refresh_access_token.
RefreshStep == refresh_calls' = refresh_calls + 1

\* C18: a call of refresh_access_token made while no refresh token is held
\* (None or the empty string) raises ValueError, sends no POST to the token
\* endpoint, and leaves _access_token and _refresh_token as they were.
C18_NoRefreshToken ==
    [][ (RefreshStep /\ ~Truthy(refresh_token))
        => ( /\ raised' = "ValueError"
             /\ token_posts' = token_posts
             /\ access_token' = access_token
             /\ refresh_token' = refresh_token ) ]_vars

C18_Witness ==
    /\ refresh_calls = 1
    /\ raised = "ValueError"
    /\ token_posts = 1
    /\ access_token = "AT1"
    /\ refresh_token = None

\* C19: a call of refresh_access_token that returns leaves _refresh_token
\* as it was when the body has no refresh_token key, sets it to the body's
\* refresh_token when it has one, and in both cases a refresh token is
\* held afterwards.
C19_RefreshTokenRetained ==
    [][ (RefreshStep /\ raised' = None)
        => ( /\ "refresh_token" \notin DOMAIN token_data'
                  => refresh_token' = refresh_token
             /\ "refresh_token" \in DOMAIN token_data'
                  => refresh_token' = token_data'["refresh_token"]
             /\ Truthy(refresh_token') ) ]_vars

\* The call of perform_oauth_flow has its outcome: a return statement was
\* executed or an exception is propagating.
Decided == outcome # "running" \/ raised # None

\* C20: within one call of perform_oauth_flow exchange_code is called at
\* most once and the browser is opened at most once; wait_for_callback
\* returns at most once; and once the call has its outcome (a failed
\* exchange, the timeout, the state mismatch or any other) the coordinator
\* only runs the finally clause: no further wait, exchange or browser
\* launch.
C20_NoRetries ==
    /\ [](exchange_calls <= 1 /\ browser_opens <= 1)
    /\ [][ /\ Decided => ( /\ pc' \in {"finally", "done"}
                           /\ exchange_calls' = exchange_calls
                           /\ browser_opens' = browser_opens )
           /\ WaitReturned => ( /\ readEnd' = readEnd
                                /\ pc' \notin {"browser", "wait"} ) ]_vars

C20_Witness ==
    /\ Ended
    /\ raised = "HTTPStatusError"
    /\ exchange_calls = 1
    /\ browser_opens = 1
    /\ token_posts = 1

(***************************************************************************)
(* Several calls of perform_oauth_flow one after the other, as the login   *)
(* screen makes them: the class attributes of OAuthCallbackHandler and the *)
(* sockets of the process outlive each call, everything else is created    *)
(* anew.  reqLog and responses run on across the calls; reqBase marks      *)
(* where the current call's part begins.                                   *)
(***************************************************************************)
MaxFlows == 2

\* The redirects the browser sends in this specification.
SeqRequests ==
    { [path |-> "/callback", query |-> q] :
          q \in { MkQuery([code |-> "c1", state |-> "S1", error |-> Absent,
                           error_description |-> Absent]),
                  MkQuery([code |-> "c2", state |-> "S2", error |-> Absent,
                           error_description |-> Absent]),
                  MkQuery([code |-> Absent, state |-> Absent,
                           error |-> "access_denied",
                           error_description |-> Absent]) } }

\* perform_oauth_flow is called again after the previous call has ended.
\* A socket the previous call left bound keeps its port occupied.
NextFlow ==
    /\ pc = "done"
    /\ flows < MaxFlows
    /\ flows' = flows + 1
    /\ reqBase' = Len(reqLog)
    /\ occupied' = IF sockBound THEN occupied \cup {port} ELSE occupied
    /\ sockBound' = FALSE
    /\ port' = DefaultPort
    /\ pc' = "idle"
    /\ state' = None
    /\ auth_url' = NoUrl
    /\ code' = None
    /\ returned_state' = None
    /\ flow_error' = None
    /\ now' = 0
    /\ access_token' = None
    /\ refresh_token' = None
    /\ token_data' = NoTokenData
    /\ outcome' = "running"
    /\ result' = << None, None, None >>
    /\ raised' = None
    /\ exchange_calls' = 0
    /\ browser_opens' = 0
    /\ readStart' = -1
    /\ readEnd' = -1
    /\ probe' = << >>
    /\ posted_redirect' = << >>
    /\ token_status' = 0
    /\ UNCHANGED << auth_code, auth_state, error, server, serving, hpc, hreq,
                    reqLog, responses, token_posts, refresh_calls, live,
                    loop_steps, stored, screen, starts, client, calls,
                    storage_log, tasks_call >>
    /\ UNCHANGED CliVars

SeqInit == Init /\ occupied = {}

SeqNext ==
    \/ Start
    \/ GetAuthorizationUrl
    \/ OpenBrowser
    \/ Wait
    \/ ReadCode
    \/ ReadState
    \/ ReadError
    \/ Check
    \/ ExchangeCode
    \/ Stop
    \/ FinalizeServer
    \/ \E r \in SeqRequests : do_GET(r)
    \/ do_GET_state
    \/ NextFlow

SeqSpec == SeqInit /\ [][SeqNext]_vars

\* The indexes in reqLog of the requests of the current call.
CurrentRequests == (reqBase + 1) .. Len(reqLog)

\* What do_GET records as error for request r.
RecordedError(r) ==
    IF Branch(r) = "error" THEN CallbackError(parse_qs(r.query)) ELSE NoCodeMessage

\* C21: start() sets auth_code, auth_state and error to None before any
\* request of the call has been handled, and in every call of a sequence
\* the code and the error that wait_for_callback hands to the flow were
\* recorded from a request of that same call, never from one of an earlier
\* call.
C21_ResetAtStart ==
    /\ [][ (pc = "idle" /\ pc' # "idle")
           => ( /\ auth_code' = None
                /\ auth_state' = None
                /\ error' = None
                /\ Len(reqLog') = reqBase' ) ]_vars
    /\ []( Truthy(code)
           => \E i \in CurrentRequests :
                /\ Branch(reqLog[i]) = "code"
                /\ reqLog[i].query["code"] = code )
    /\ []( Truthy(flow_error)
           => \E i \in CurrentRequests :
                /\ Branch(reqLog[i]) \in {"error", "neither"}
                /\ RecordedError(reqLog[i]) = flow_error )

C21_Witness ==
    /\ flows = 2
    /\ Ended
    /\ reqBase = 2
    /\ Branch(reqLog[1]) = "code"
    /\ Branch(reqLog[2]) = "error"
    /\ CurrentRequests = {}
    /\ result = << None, None, "Authorization timed out" >>

\* C22: at every moment at most one HTTPServer is in serve_forever, it was
\* started by the current call of perform_oauth_flow, and none is once the
\* call has ended; a listener begins to serve only in a call that holds no
\* server yet, so no call serves with the listener of an earlier one.
C22_OneListener ==
    /\ []( /\ Cardinality(live) <= 1
           /\ live \subseteq {flows}
           /\ serving <=> live # {}
           /\ pc = "done" => live = {} )
    /\ [][ (live' # live /\ live' # {})
           => ( /\ server = None
                /\ live = {}
                /\ live' = {flows}
                /\ server' = "HTTPServer" ) ]_vars

C22_Witness ==
    /\ flows = 2
    /\ reqBase = 1
    /\ responses = << 200 >>
    /\ pc = "wait"
    /\ live = {2}

(***************************************************************************)
(* One call of perform_oauth_flow seen with its three execution contexts:  *)
(* the event loop, on which the coroutine runs and other tasks run while   *)
(* it is suspended; the worker thread of asyncio.to_thread, which runs     *)
(* wait_for_callback; and the serve_forever thread, which runs do_GET.     *)
(***************************************************************************)
MaxLoopSteps == 2

\* Faulty variant: wait_for_callback is called on the event loop itself.
AwaitPointsBlocking == {}

\* The positions at which the coroutine is suspended in
\* `await asyncio.to_thread(server.wait_for_callback, 300)`.
AwaitPoints == {"wait", "read_code", "read_state", "read_error"}

\* Another task of the event loop runs one step.
LoopStep ==
    /\ pc \in AwaitPoints
    /\ loop_steps < MaxLoopSteps
    /\ loop_steps' = loop_steps + 1
    /\ UNCHANGED << auth_code, auth_state, error, occupied, port, server,
                    serving, sockBound, hpc, hreq, reqLog, responses,
                    token_posts, probe, refresh_calls, live, flows, reqBase,
                    stored, posted_redirect, token_status, screen, starts,
                    client, calls,
                    storage_log, tasks_call >>
    /\ UNCHANGED FlowVars
    /\ UNCHANGED CliVars

LoopNext ==
    \/ Start
    \/ GetAuthorizationUrl
    \/ OpenBrowser
    \/ Wait
    \/ ReadCode
    \/ ReadState
    \/ ReadError
    \/ Check
    \/ ExchangeCode
    \/ Stop
    \/ FinalizeServer
    \/ \E r \in SeqRequests : do_GET(r)
    \/ do_GET_state
    \/ LoopStep

LoopSpec == SeqInit /\ [][LoopNext]_vars

\* C23: while the poll of wait_for_callback is running, the serve_forever
\* thread takes requests (the listener serves and do_GET can run), a poll
\* made within the timeout after do_GET recorded a code or an error leaves
\* the loop, the tuple handed back is read from what do_GET recorded, and
\* another task of the event loop can run.
C23_Concurrent ==
    /\ []( (pc = "wait" /\ hpc = "idle" /\ Len(reqLog) < MaxRequests)
           => (serving /\ ENABLED (\E r \in SeqRequests : do_GET(r))) )
    /\ []( (pc \in {"wait", "read_code", "read_state", "read_error"}
              /\ loop_steps < MaxLoopSteps)
           => ENABLED LoopStep )
    /\ [][ (pc = "wait" /\ pc' = "wait" /\ now' # now)
           => ~CallbackSeen(auth_code, error) ]_vars
    /\ [][ (pc = "read_code" /\ pc' # pc) => code' = auth_code ]_vars
    /\ [][ (pc = "read_error" /\ pc' # pc) => flow_error' = error ]_vars

C23_Witness ==
    /\ pc = "check"
    /\ loop_steps > 0
    /\ Len(reqLog) = 1
    /\ readStart = 1
    /\ now = 3
    /\ code = "c1"
    /\ returned_state = "S1"

(***************************************************************************)
(* TickTUIApp around the flow: on_mount routes by the token file, the      *)
(* login screen's on_oauth_login calls perform_oauth_flow and hands the    *)
(* tokens to setup_client, which saves them; the application is quit and   *)
(* started again.  pc = "handled" is on_oauth_login having returned.       *)
(***************************************************************************)
MaxStarts == 2

\* Faulty variant of Save: the refresh_token key is written whatever it holds.
SaveAlwaysRefresh(file, at, rt) ==
    [exists |-> TRUE, data |-> [access_token |-> at, refresh_token |-> rt]]

\* TokenStorage.save(access_token, refresh_token): the file is rewritten
\* with the access token, and the refresh token only when it is truthy.
Save(file, at, rt) ==
    [exists |-> TRUE,
     data |-> IF Truthy(rt) THEN [access_token |-> at, refresh_token |-> rt]
              ELSE [access_token |-> at]]

\* TokenStorage.load()
Load(file) == IF file.exists THEN file.data ELSE NoTokenData

\* The token files the application can find at its first start.
InitialFiles == { NoFile, [exists |-> TRUE, data |-> [access_token |-> "AT0"]] }

AppInit ==
    /\ auth_code = None
    /\ auth_state = None
    /\ error = None
    /\ occupied = {}
    /\ port = DefaultPort
    /\ server = None
    /\ serving = FALSE
    /\ sockBound = FALSE
    /\ pc = "idle"
    /\ hpc = "idle"
    /\ hreq = NoRequest
    /\ state = None
    /\ auth_url = NoUrl
    /\ code = None
    /\ returned_state = None
    /\ flow_error = None
    /\ now = 0
    /\ access_token = None
    /\ refresh_token = None
    /\ token_data = NoTokenData
    /\ outcome = "running"
    /\ result = << None, None, None >>
    /\ raised = None
    /\ exchange_calls = 0
    /\ browser_opens = 0
    /\ reqLog = << >>
    /\ readStart = -1
    /\ readEnd = -1
    /\ responses = << >>
    /\ token_posts = 0
    /\ probe = << >>
    /\ refresh_calls = 0
    /\ flows = 1
    /\ reqBase = 0
    /\ live = {}
    /\ loop_steps = 0
    /\ stored \in InitialFiles
    /\ posted_redirect = << >>
    /\ token_status = 0
    /\ screen = "off"
    /\ starts = 0
    /\ client = None
    /\ calls = NoCalls
    /\ storage_log = << >>
    /\ tasks_call = NoTasksCall
    /\ argv = << >>
    /\ launched = << >>
    /\ func = << >>
    /\ exit_code = -1
    /\ printed = << >>
    /\ api_calls = 0

\* main(): a new process.  on_mount loads the token file; with an access
\* token it calls setup_client("", "", tokens["access_token"]) and shows
\* the main screen, otherwise the login screen.
OnMount ==
    /\ screen = "off"
    /\ starts < MaxStarts
    /\ starts' = starts + 1
    /\ LET tokens == Load(stored) IN
         IF Truthy(Get(tokens, "access_token", None))
         THEN /\ access_token' = tokens["access_token"]
              /\ client' = tokens["access_token"]
              /\ stored' = Save(stored, tokens["access_token"], None)
              /\ screen' = "main"
         ELSE /\ access_token' = None
              /\ client' = None
              /\ screen' = "login"
              /\ UNCHANGED stored
    /\ auth_code' = None
    /\ auth_state' = None
    /\ error' = None
    /\ occupied' = {}
    /\ sockBound' = FALSE
    /\ port' = DefaultPort
    /\ pc' = "idle"
    /\ state' = None
    /\ auth_url' = NoUrl
    /\ code' = None
    /\ returned_state' = None
    /\ flow_error' = None
    /\ now' = 0
    /\ refresh_token' = None
    /\ token_data' = NoTokenData
    /\ outcome' = "running"
    /\ result' = << None, None, None >>
    /\ raised' = None
    /\ exchange_calls' = 0
    /\ browser_opens' = 0
    /\ readStart' = -1
    /\ readEnd' = -1
    /\ probe' = << >>
    /\ posted_redirect' = << >>
    /\ token_status' = 0
    /\ reqLog' = << >>
    /\ responses' = << >>
    /\ reqBase' = 0
    /\ UNCHANGED << server, serving, hpc, hreq, token_posts, refresh_calls,
                    live, flows, loop_steps, calls,
                    storage_log, tasks_call >>
    /\ UNCHANGED CliVars

\* Faulty variant of LoginSucceeded: the access token is not tested.
LoginSucceededAnyToken(res, exc) == exc = None /\ ~Truthy(res[3])

\* on_oauth_login's test of what perform_oauth_flow gave: nothing raised,
\* "if error" not taken, "if access_token" taken.
LoginSucceeded(res, exc) == exc = None /\ ~Truthy(res[3]) /\ Truthy(res[1])

\* The statements of on_oauth_login after the await: an exception is
\* caught and shown, an error is shown, an access token goes to
\* setup_client, which builds a new TickTickAuth and saves the tokens.
HandleResult ==
    /\ screen = "login"
    /\ pc = "done"
    /\ pc' = "handled"
    /\ IF LoginSucceeded(result, raised)
       THEN /\ access_token' = result[1]
            /\ refresh_token' = None
            /\ client' = result[1]
            /\ stored' = Save(stored, result[1], result[2])
            /\ screen' = "main"
       ELSE UNCHANGED << access_token, refresh_token, client, stored, screen >>
    /\ UNCHANGED << auth_code, auth_state, error, occupied, port, server,
                    serving, sockBound, hpc, hreq, state, auth_url, code,
                    returned_state, flow_error, now, token_data, outcome,
                    result, raised, exchange_calls, browser_opens, reqLog,
                    readStart, readEnd, responses, token_posts, probe,
                    refresh_calls, flows, reqBase, live, loop_steps,
                    posted_redirect, token_status, starts, calls,
                    storage_log, tasks_call >>
    /\ UNCHANGED CliVars

\* The button is pressed again on the login screen.
LoginAgain ==
    /\ screen = "login"
    /\ pc = "handled"
    /\ flows < MaxFlows
    /\ flows' = flows + 1
    /\ reqBase' = Len(reqLog)
    /\ occupied' = IF sockBound THEN occupied \cup {port} ELSE occupied
    /\ sockBound' = FALSE
    /\ port' = DefaultPort
    /\ pc' = "idle"
    /\ state' = None
    /\ auth_url' = NoUrl
    /\ code' = None
    /\ returned_state' = None
    /\ flow_error' = None
    /\ now' = 0
    /\ access_token' = None
    /\ refresh_token' = None
    /\ token_data' = NoTokenData
    /\ outcome' = "running"
    /\ result' = << None, None, None >>
    /\ raised' = None
    /\ exchange_calls' = 0
    /\ browser_opens' = 0
    /\ readStart' = -1
    /\ readEnd' = -1
    /\ probe' = << >>
    /\ posted_redirect' = << >>
    /\ token_status' = 0
    /\ UNCHANGED << auth_code, auth_state, error, server, serving, hpc, hreq,
                    reqLog, responses, token_posts, refresh_calls, live,
                    loop_steps, stored, screen, starts, client, calls,
                    storage_log, tasks_call >>
    /\ UNCHANGED CliVars

\* The application is quit while no flow is running.
Quit ==
    /\ screen \in {"login", "main"}
    /\ pc \in {"idle", "handled"}
    /\ screen' = "off"
    /\ UNCHANGED << auth_code, auth_state, error, occupied, port, server,
                    serving, sockBound, pc, hpc, hreq, state, auth_url, code,
                    returned_state, flow_error, now, access_token,
                    refresh_token, token_data, outcome, result, raised,
                    exchange_calls, browser_opens, reqLog, readStart,
                    readEnd, responses, token_posts, probe, refresh_calls,
                    flows, reqBase, live, loop_steps, stored,
                    posted_redirect, token_status, starts, client, calls,
                    storage_log, tasks_call >>
    /\ UNCHANGED CliVars

\* A step of perform_oauth_flow or of its listener, made while the login
\* screen is shown.
FlowStep ==
    /\ screen = "login"
    /\ \/ Start
       \/ GetAuthorizationUrl
       \/ OpenBrowser
       \/ Wait
       \/ ReadCode
       \/ ReadState
       \/ ReadError
       \/ Check
       \/ ExchangeCode
       \/ Stop
       \/ FinalizeServer
       \/ \E r \in SeqRequests : do_GET(r)
       \/ do_GET_state

AppNext ==
    \/ OnMount
    \/ FlowStep
    \/ HandleResult
    \/ LoginAgain
    \/ Quit

AppSpec == AppInit /\ [][AppNext]_vars

\* C24: no step of perform_oauth_flow or of its listener changes the token
\* file, whatever the outcome; the file changes only in on_oauth_login
\* after the call has returned, or in on_mount.
C24_FlowLeavesStorage ==
    [][ stored' # stored
        => ( \/ pc = "done" /\ pc' = "handled"
             \/ screen = "off" /\ screen' # "off" ) ]_vars

C24_Witness ==
    /\ pc = "done"
    /\ outcome = "returned"
    /\ result = << "AT1", "RT1", None >>
    /\ stored = NoFile

\* C30: once the token file holds a refresh token (written by setup_client
\* after an OAuth login), no later step leaves a file that keeps the access
\* token and lacks that refresh token; in particular starting the
\* application again does not.
C30_RefreshTokenSurvivesRestart ==
    [][ ( /\ "refresh_token" \in DOMAIN stored.data
          /\ stored'.exists
          /\ Get(stored'.data, "access_token", None) = stored.data["access_token"] )
        => Get(stored'.data, "refresh_token", None) = stored.data["refresh_token"] ]_vars

\* The redirect_uri parameter of the authorization URL, decoded.
UrlRedirect == [i \in DOMAIN auth_url.redirect_uri |-> unquote_plus(auth_url.redirect_uri[i])]

\* C25: the URL given to webbrowser.open carries the client id,
\* response_type=code, the scope "tasks:read tasks:write", the generated
\* state and, as redirect_uri, http://localhost:<port>/callback, <port>
\* being the port the search returned and the listener's socket is bound
\* to; exchange_code posts the same redirect_uri.
C25_AuthorizationUrl ==
    /\ browser_opens > 0
       => ( /\ DOMAIN auth_url = {"client_id", "redirect_uri", "response_type",
                                  "scope", "state"}
            /\ auth_url.client_id = "client"
            /\ auth_url.response_type = "code"
            /\ unquote_plus(auth_url.scope) = "tasks:read tasks:write"
            /\ unquote_plus(auth_url.state) = state
            /\ UrlRedirect = << "http://", "localhost", ":", ToString(port), "/callback" >>
            /\ probe = << port >>
            /\ pc \notin {"finally", "done"} => (serving /\ sockBound) )
    /\ exchange_calls > 0 => posted_redirect = UrlRedirect

C25_Witness ==
    /\ exchange_calls > 0
    /\ occupied = {DefaultPort}
    /\ port = DefaultPort + 1
    /\ posted_redirect = << "http://", "localhost", ":", "8081", "/callback" >>
    /\ UrlRedirect = posted_redirect

(***************************************************************************)
(* The entry points: __main__.main chooses between the TUI and the CLI by  *)
(* the first argument, cli.main parses the arguments, runs the selected    *)
(* command and exits with its status.  An argument is the sequence of its  *)
(* characters.                                                             *)
(***************************************************************************)
MaxArgs == 4

W_tasks == << "t", "a", "s", "k", "s" >>
W_lists == << "l", "i", "s", "t", "s" >>
W_folder == << "f", "o", "l", "d", "e", "r" >>
W_tags == << "t", "a", "g", "s" >>
W_list == << "l", "i", "s", "t" >>
W_add == << "a", "d", "d" >>
W_rename == << "r", "e", "n", "a", "m", "e" >>
W_delete == << "d", "e", "l", "e", "t", "e" >>
W_name == << "x" >>
W_option == << "-", "v" >>
W_empty == << >>

Tokens == { W_tasks, W_lists, W_folder, W_tags, W_list, W_add, W_rename,
            W_delete, W_name, W_option, W_empty }

ArgLists == UNION { [1 .. n -> Tokens] : n \in 0 .. MaxArgs }

\* str.startswith("-")
StartsWithDash(a) == Len(a) >= 1 /\ a[1] = "-"

\* Faulty variant: every invocation with arguments goes to the CLI.
DispatchAnyArgument(args) == IF args = << >> THEN "tui" ELSE "cli"

\* __main__.main: the entry point chosen for sys.argv[1:].
Dispatch(args) ==
    IF args = << >> THEN "tui"
    ELSE IF ~StartsWithDash(args[1]) THEN "cli"
    ELSE "tui"

\* build_parser: the sub-commands of each command group modelled here and
\* the number of positional arguments each takes.  `tasks add` also needs
\* the option --list, which no argument list of this model carries.
Groups == { W_tasks, W_lists, W_folder, W_tags }

SubCommands(g) ==
    IF g = W_tasks THEN { W_list, W_delete }
    ELSE { W_list, W_add, W_rename, W_delete }

Positionals(c) ==
    CASE c = W_list -> 0
      [] c = W_rename -> 2
      [] OTHER -> 1

\* The name of the function set_defaults(func=...) attaches.
GroupName(g) ==
    CASE g = W_tasks -> "tasks"
      [] g = W_lists -> "lists"
      [] g = W_folder -> "folder"
      [] OTHER -> "tags"

CommandName(c) ==
    CASE c = W_list -> "list"
      [] c = W_add -> "add"
      [] c = W_rename -> "rename"
      [] OTHER -> "delete"

FuncName(g, c) == << "cmd", GroupName(g), CommandName(c) >>

\* parser.parse_args(argv): the function selected, or << >> when argparse
\* rejects the arguments (it then exits with status 2 itself).
parse_args(args) ==
    IF /\ Len(args) >= 2
       /\ args[1] \in Groups
       /\ args[2] \in SubCommands(args[1])
       /\ Len(args) = 2 + Positionals(args[2])
       /\ \A i \in 3 .. Len(args) : ~StartsWithDash(args[i])
    THEN FuncName(args[1], args[2])
    ELSE << >>

\* The commands whose body is a single raise.
Unsupported ==
    { << "cmd", g, c >> : g \in {"lists", "folder", "tags"},
                          c \in {"add", "rename", "delete"} }

\* The message of the RuntimeError an unsupported command raises.
UnsupportedMessage(f) ==
    CASE f[2] = "tags" -> "Tag management is not supported by TickTick Open API."
      [] f = << "cmd", "lists", "add" >> ->
           "Creating lists/projects is not supported by TickTick Open API."
      [] f = << "cmd", "lists", "rename" >> ->
           "Renaming lists/projects is not supported by TickTick Open API."
      [] f = << "cmd", "lists", "delete" >> ->
           "Deleting lists/projects is not supported by TickTick Open API."
      [] f = << "cmd", "folder", "add" >> ->
           "Creating folders/groups is not supported by TickTick Open API."
      [] f = << "cmd", "folder", "rename" >> ->
           "Renaming folders/groups is not supported by TickTick Open API."
      [] OTHER ->
           "Deleting folders/groups is not supported by TickTick Open API."

NotLoggedIn ==
    "Not logged in. Run the TUI once to authenticate, or store an access_token in ~/.config/ticktui/tokens.json"

\* Faulty variant: the runner returns ExitCode.OK after printing the error.
ExitStatusAlwaysOk(exc) == 0

\* _runner: ExitCode.ERROR when the command raised, else what it returned,
\* which is ExitCode.OK in every command.
ExitStatus(exc) == IF exc # None THEN 1 ELSE 0

EntryInit ==
    /\ auth_code = None
    /\ auth_state = None
    /\ error = None
    /\ occupied = {}
    /\ port = DefaultPort
    /\ server = None
    /\ serving = FALSE
    /\ sockBound = FALSE
    /\ pc = "idle"
    /\ hpc = "idle"
    /\ hreq = NoRequest
    /\ state = None
    /\ auth_url = NoUrl
    /\ code = None
    /\ returned_state = None
    /\ flow_error = None
    /\ now = 0
    /\ access_token = None
    /\ refresh_token = None
    /\ token_data = NoTokenData
    /\ outcome = "running"
    /\ result = << None, None, None >>
    /\ raised = None
    /\ exchange_calls = 0
    /\ browser_opens = 0
    /\ reqLog = << >>
    /\ readStart = -1
    /\ readEnd = -1
    /\ responses = << >>
    /\ token_posts = 0
    /\ probe = << >>
    /\ refresh_calls = 0
    /\ flows = 0
    /\ reqBase = 0
    /\ live = {}
    /\ loop_steps = 0
    /\ stored \in InitialFiles
    /\ posted_redirect = << >>
    /\ token_status = 0
    /\ screen = "off"
    /\ starts = 0
    /\ client = None
    /\ calls = NoCalls
    /\ storage_log = << >>
    /\ tasks_call = NoTasksCall
    /\ argv \in ArgLists
    /\ launched = << >>
    /\ func = << >>
    /\ exit_code = -1
    /\ printed = << >>
    /\ api_calls = 0

\* What the entry points leave alone.
EntryFrame ==
    UNCHANGED << auth_code, auth_state, error, occupied, port, server,
                 serving, sockBound, pc, hpc, hreq, state, auth_url, code,
                 returned_state, flow_error, now, refresh_token, token_data,
                 outcome, result, exchange_calls, browser_opens, reqLog,
                 readStart, readEnd, responses, token_posts, probe,
                 refresh_calls, flows, reqBase, live, loop_steps, stored,
                 posted_redirect, token_status, starts,
                 client, calls, storage_log, tasks_call, argv >>

\* __main__.main(): exactly one of tui_main() and cli_main(argv) is called.
Main ==
    /\ launched = << >>
    /\ launched' = << [entry |-> Dispatch(argv),
                       args |-> IF Dispatch(argv) = "cli" THEN argv ELSE << >>] >>
    /\ screen' = IF Dispatch(argv) = "tui" THEN "login" ELSE screen
    /\ UNCHANGED << func, exit_code, printed, api_calls, raised, access_token >>
    /\ EntryFrame

\* cli.main: args = parser.parse_args(argv)
CliParse ==
    /\ Len(launched) = 1
    /\ launched[1].entry = "cli"
    /\ func = << >>
    /\ exit_code = -1
    /\ func' = parse_args(launched[1].args)
    /\ exit_code' = IF parse_args(launched[1].args) = << >> THEN 2 ELSE -1
    /\ UNCHANGED << launched, printed, api_calls, raised, access_token, screen >>
    /\ EntryFrame

\* cli.main: raise SystemExit(asyncio.run(_runner())).  An unsupported
\* command raises at once; the others build a client from the token file,
\* which raises when no access token is stored, and then call the Open API,
\* which answers or fails.
CliRun ==
    /\ func # << >>
    /\ exit_code = -1
    /\ \E api_ok \in BOOLEAN :
         LET logged_in == Truthy(Get(Load(stored), "access_token", None))
             exc == IF func \in Unsupported THEN "RuntimeError"
                    ELSE IF ~logged_in THEN "RuntimeError"
                    ELSE IF ~api_ok THEN "HTTPStatusError"
                    ELSE None
             message == IF func \in Unsupported THEN UnsupportedMessage(func)
                        ELSE IF ~logged_in THEN NotLoggedIn
                        ELSE "HTTPStatusError"
         IN /\ raised' = exc
            /\ api_calls' = IF func \notin Unsupported /\ logged_in
                            THEN api_calls + 1 ELSE api_calls
            /\ access_token' = IF func \notin Unsupported /\ logged_in
                               THEN Load(stored)["access_token"] ELSE access_token
            /\ printed' = IF exc # None THEN << "Error: ", message >> ELSE printed
            /\ exit_code' = ExitStatus(exc)
    /\ UNCHANGED << launched, func, screen >>
    /\ EntryFrame

EntryNext ==
    \/ Main
    \/ CliParse
    \/ CliRun

EntrySpec == EntryInit /\ [][EntryNext]_vars

\* Every argument of the list starts with "-".
OptionsOnly(args) == args # << >> /\ \A i \in 1 .. Len(args) : StartsWithDash(args[i])

\* C26: __main__.main launches the TUI for an empty argument list, the CLI
\* with the whole argument list when the first argument does not start
\* with "-", the TUI when every argument is an option, and in each
\* invocation exactly one of the two.
C26_Dispatch ==
    /\ Len(launched) <= 1
    /\ launched # << >>
       => ( /\ launched[1].entry \in {"tui", "cli"}
            /\ argv = << >> => launched[1].entry = "tui"
            /\ (argv # << >> /\ ~StartsWithDash(argv[1]))
                 => launched[1] = [entry |-> "cli", args |-> argv]
            /\ OptionsOnly(argv) => launched[1].entry = "tui" )

C26_Witness ==
    /\ argv = << W_option, W_option >>
    /\ Len(launched) = 1
    /\ launched[1].entry = "tui"

\* C27: a selected command that raised made cli.main print "Error: " and
\* the message and exit with 1, one that returned made it exit with 0;
\* lists, folder and tags add, rename and delete exit with 1, with their
\* own message, without a request to the API.
C27_ExitStatus ==
    (func # << >> /\ exit_code # -1)
    => ( /\ raised # None => (exit_code = 1 /\ Len(printed) = 2 /\ printed[1] = "Error: ")
         /\ raised = None => (exit_code = 0 /\ printed = << >>)
         /\ func \in Unsupported
              => ( /\ exit_code = 1
                   /\ api_calls = 0
                   /\ printed = << "Error: ", UnsupportedMessage(func) >> ) )

C27_Witness ==
    /\ func = << "cmd", "folder", "rename" >>
    /\ stored.exists
    /\ exit_code = 1
    /\ api_calls = 0

\* The position of the coordinator in the text of perform_oauth_flow.
Rank(p) ==
    CASE p = "idle" -> 0
      [] p = "auth" -> 1
      [] p = "browser" -> 2
      [] p = "wait" -> 3
      [] p = "read_code" -> 4
      [] p = "read_state" -> 5
      [] p = "read_error" -> 6
      [] p = "check" -> 7
      [] p = "exchange" -> 8
      [] p = "finally" -> 9
      [] OTHER -> 10

\* The order of the steps of one call: the coordinator only moves forward;
\* start() resets the callback state and searches the port; the listener
\* serves only on the port found; the browser is opened while the listener
\* serves and before the wait; the wait comes after the browser; the
\* exchange comes after the wait has returned and the states were equal.
StepOrder ==
    /\ [][ Rank(pc') >= Rank(pc) ]_vars
    /\ [][ (pc = "idle" /\ pc' # "idle")
           => ( /\ auth_code' = None /\ auth_state' = None /\ error' = None
                /\ probe' = find_available_port(port, occupied)
                /\ serving' => probe' = << port' >> ) ]_vars
    /\ []( serving => (probe = << port >> /\ sockBound) )
    /\ [][ browser_opens' > browser_opens
           => (serving /\ sockBound /\ now = 0 /\ ~WaitReturned) ]_vars
    /\ []( (now > 0 \/ WaitReturned) => browser_opens = 1 )
    /\ []( exchange_calls > 0
           => (WaitReturned /\ Truthy(code) /\ returned_state = state) )

\* C28 as stated: the steps occur in that order, and from the moment the
\* browser has been opened the port of the redirect_uri is bound, whenever
\* the redirect arrives.
C28_Original ==
    /\ StepOrder
    /\ []( (browser_opens > 0 /\ raised # "webbrowser.Error") => sockBound )

\* C28 amended: the steps occur in that order, and from the moment the
\* browser is opened until the call's finally clause has stopped the
\* listener the port of the redirect_uri is bound and served.
C28_FlowOrder ==
    /\ StepOrder
    /\ []( (browser_opens > 0 /\ pc # "done") => (serving /\ sockBound) )

C28_Witness ==
    /\ Ended
    /\ browser_opens = 1
    /\ exchange_calls = 1
    /\ result = << "AT1", "RT1", None >>
    /\ Len(reqLog) = 1
    /\ readStart = 1

\* The state do_GET records for request r of the code branch.
RecordedState(r) == Get(parse_qs(r.query), "state", << None >>)[1]

\* C29: when wait_for_callback has returned a non-empty code, some
\* /callback request handled in the call supplied both that code and the
\* state returned with it.
C29_CodeStatePaired ==
    (WaitReturned /\ Truthy(code))
    => \E i \in 1 .. Len(reqLog) :
         /\ Branch(reqLog[i]) = "code"
         /\ parse_qs(reqLog[i].query)["code"][1] = code
         /\ RecordedState(reqLog[i]) = returned_state

(***************************************************************************)
(* One call of perform_oauth_flow with the scheduling the runtime gives:   *)
(* the coordinator and the serve_forever thread keep running (weak         *)
(* fairness of their steps); what clients send, and when, is not           *)
(* constrained.  HTTPServer handles a connection on the serve_forever      *)
(* thread itself: once it has accepted one, the handler reads the request  *)
(* line with no timeout (StreamRequestHandler.timeout is None) and the     *)
(* loop does not look at the shutdown flag until the handler returns.      *)
(***************************************************************************)

\* A client connects and sends nothing yet: the handler blocks in
\* rfile.readline().
AcceptIdle ==
    /\ serving
    /\ hpc = "idle"
    /\ hpc' = "reading"
    /\ UNCHANGED << auth_code, auth_state, error, hreq, reqLog, responses >>
    /\ UNCHANGED << occupied, port, server, serving, sockBound, probe,
                    token_posts >>
    /\ UNCHANGED FlowVars
    /\ UNCHANGED << refresh_calls, live, Elsewhere, posted_redirect, token_status >>

\* The client closes the idle connection: readline returns, the handler
\* ends without calling do_GET.
ClientCloses ==
    /\ hpc = "reading"
    /\ hpc' = "idle"
    /\ UNCHANGED << auth_code, auth_state, error, hreq, reqLog, responses >>
    /\ UNCHANGED << occupied, port, server, serving, sockBound, probe,
                    token_posts >>
    /\ UNCHANGED FlowVars
    /\ UNCHANGED << refresh_calls, live, Elsewhere, posted_redirect, token_status >>

\* The steps of the coordinator.
Coordinator ==
    \/ Start
    \/ GetAuthorizationUrl
    \/ OpenBrowser
    \/ Wait
    \/ ReadCode
    \/ ReadState
    \/ ReadError
    \/ Check
    \/ ExchangeCode
    \/ Stop

LiveNext ==
    \/ Coordinator
    \/ FinalizeServer
    \/ \E r \in SeqRequests : do_GET(r)
    \/ do_GET_state
    \/ AcceptIdle
    \/ ClientCloses

LiveSpec ==
    /\ SeqInit
    /\ [][LiveNext]_vars
    /\ WF_vars(Coordinator)
    /\ WF_vars(do_GET_state)

\* C31: every call of perform_oauth_flow ends, by a return or by an
\* exception, whatever the clients of the listener do.
C31_FlowTerminates == <>(pc = "done")

\* The step is one call of exchange_code.
ExchangeStep == exchange_calls' = exchange_calls + 1

\* C32: a call of exchange_code answered with a status of 400 or more
\* raises HTTPStatusError and leaves _access_token and _refresh_token as
\* they were; a call changes them only when it is answered with 2xx, and
\* then to the access_token and refresh_token of the body.
C32_FailedExchangeKeepsTokens ==
    [][ ExchangeStep
        => ( /\ token_status' >= 400
                  => ( /\ raised' = "HTTPStatusError"
                       /\ access_token' = access_token
                       /\ refresh_token' = refresh_token
                       /\ token_data' = token_data )
             /\ token_status' < 400
                  => ( /\ raised' = None
                       /\ access_token' = Get(token_data', "access_token", None)
                       /\ refresh_token' = Get(token_data', "refresh_token", None) ) ) ]_vars

C32_Witness ==
    /\ exchange_calls = 2
    /\ token_status = 400
    /\ raised = "HTTPStatusError"
    /\ access_token = "AT1"
    /\ refresh_token = "RT1"

(***************************************************************************)
(* The login screen after the flow.                                        *)
(***************************************************************************)

\* on_oauth_login takes up the outcome of perform_oauth_flow.
LoginStep == pc = "done" /\ pc' = "handled"

\* The flow returned a non-empty access token and no error.
FlowGaveToken ==
    /\ raised = None
    /\ result[3] \in {None, ""}
    /\ result[1] \notin {None, ""}

\* C33: in the TUI login the token file is written, the application's
\* client is set and the main screen is shown only when the flow returned
\* a non-empty access token and no error; when it returned an error or no
\* access token, or raised, the token file and the client stay as they
\* were and the login screen stays.
C33_LoginOnlyOnToken ==
    [][ /\ LoginStep /\ FlowGaveToken
            => /\ stored' = Save(stored, result[1], result[2])
               /\ client' = result[1]
               /\ screen' = "main"
        /\ LoginStep /\ ~FlowGaveToken
            => /\ stored' = stored
               /\ client' = client
               /\ screen' = "login"
        /\ screen = "login" /\ (screen' = "main" \/ stored' # stored \/ client' # client)
            => LoginStep /\ FlowGaveToken ]_vars

\* A first flow failed and left the login screen, a second one logged in.
C33_Witness ==
    /\ flows = 2
    /\ pc = "handled"
    /\ screen = "main"
    /\ client = "AT1"
    /\ Load(stored) = [access_token |-> "AT1", refresh_token |-> "RT1"]

(***************************************************************************)
(* Two calls of perform_oauth_flow that overlap in one process, for        *)
(* example under asyncio.gather.  Each call has its own OAuthRedirectServer *)
(* and its own state; auth_code, auth_state and error are attributes of    *)
(* the class OAuthCallbackHandler, which both servers pass to HTTPServer,  *)
(* so there is one copy of them.  The handler's two writes of the code     *)
(* branch are taken in one step here; Spec has them apart.                 *)
(***************************************************************************)

\* secrets.token_urlsafe(32) in get_authorization_url: the calls draw
\* different states.
StateOf(f) == IF f = "A" THEN "S1" ELSE "S2"

\* From server.start() to server.stop() the call's listener answers.
Listening(c) == c.pc \in {"url", "wait", "read", "exchange", "finally"}

\* Ports the servers of the other calls hold (stop() leaves the socket
\* bound).
HeldPorts(f) == { calls[g].port : g \in { h \in CallIds \ {f} : calls[h].pc # "idle" } }

\* do_GET on request r: the class attributes afterwards.
HandlerWrites(r, attrs) ==
    CASE Branch(r) = "code" ->
           [auth_code |-> parse_qs(r.query)["code"][1],
            auth_state |-> Get(parse_qs(r.query), "state", << None >>)[1],
            error |-> attrs.error]
      [] Branch(r) = "error" ->
           [attrs EXCEPT !.error = CallbackError(parse_qs(r.query))]
      [] Branch(r) = "neither" -> [attrs EXCEPT !.error = NoCodeMessage]
      [] OTHER -> attrs

OverlapFrame ==
    UNCHANGED << occupied, port, server, serving, sockBound, pc, hpc, hreq,
                 state, auth_url, code, returned_state, flow_error, now,
                 access_token, refresh_token, token_data, outcome, result,
                 raised, exchange_calls, browser_opens, reqLog, readStart,
                 readEnd, responses, token_posts, probe, refresh_calls, live,
                 flows, reqBase, loop_steps, stored, posted_redirect,
                 token_status, screen, starts, client, storage_log,
                 tasks_call, CliVars >>

\* server = OAuthRedirectServer(); server.start()
CallStart(f) ==
    /\ calls[f].pc = "idle"
    /\ find_available_port(DefaultPort, HeldPorts(f)) # << >>
    /\ auth_code' = start_reset(auth_code)
    /\ auth_state' = start_reset(auth_state)
    /\ error' = start_reset(error)
    /\ calls' = [calls EXCEPT
                   ![f].pc = "url",
                   ![f].port = find_available_port(DefaultPort, HeldPorts(f))[1]]
    /\ OverlapFrame

\* auth.get_authorization_url() and webbrowser.open(auth_url)
CallGetUrl(f) ==
    /\ calls[f].pc = "url"
    /\ calls' = [calls EXCEPT ![f].pc = "wait", ![f].state = StateOf(f)]
    /\ UNCHANGED << auth_code, auth_state, error >>
    /\ OverlapFrame

\* One turn of wait_for_callback's loop, in the call's worker thread.
CallWait(f) ==
    /\ calls[f].pc = "wait"
    /\ calls' = IF CallbackSeen(auth_code, error) \/ ~WaitRunning(calls[f].ticks)
                THEN [calls EXCEPT ![f].pc = "read"]
                ELSE [calls EXCEPT ![f].ticks = @ + 1]
    /\ UNCHANGED << auth_code, auth_state, error >>
    /\ OverlapFrame

\* wait_for_callback returns the class attributes and the call checks them.
CallCheck(f) ==
    /\ calls[f].pc = "read"
    /\ LET d == Decision(auth_code, auth_state, error, calls[f].state) IN
         calls' = IF d.next = "exchange"
                  THEN [calls EXCEPT ![f].pc = "exchange"]
                  ELSE [calls EXCEPT ![f].pc = "finally", ![f].result = d.triple]
    /\ UNCHANGED << auth_code, auth_state, error >>
    /\ OverlapFrame

\* token_data = await auth.exchange_code(code)
CallExchange(f) ==
    /\ calls[f].pc = "exchange"
    /\ \E resp \in TokenResponses :
         calls' = IF RaisesForStatus(resp)
                  THEN [calls EXCEPT ![f].pc = AfterRaise,
                                     ![f].raised = "HTTPStatusError"]
                  ELSE [calls EXCEPT ![f].pc = "finally",
                                     ![f].result = TokenTriple(resp.json)]
    /\ UNCHANGED << auth_code, auth_state, error >>
    /\ OverlapFrame

\* finally: server.stop()
CallStop(f) ==
    /\ calls[f].pc = "finally"
    /\ calls' = [calls EXCEPT ![f].pc = "done"]
    /\ UNCHANGED << auth_code, auth_state, error >>
    /\ OverlapFrame

Delivered == Len(calls["A"].delivered) + Len(calls["B"].delivered)

\* A client sends request r to the port of call f's listener.
CallDoGet(f, r) ==
    /\ Listening(calls[f])
    /\ Delivered < MaxRequests
    /\ LET w == HandlerWrites(r, [auth_code |-> auth_code,
                                  auth_state |-> auth_state,
                                  error |-> error]) IN
         /\ auth_code' = w.auth_code
         /\ auth_state' = w.auth_state
         /\ error' = w.error
    /\ calls' = [calls EXCEPT ![f].delivered = Append(@, r)]
    /\ OverlapFrame

OverlapNext ==
    \E f \in CallIds :
        \/ CallStart(f)
        \/ CallGetUrl(f)
        \/ CallWait(f)
        \/ CallCheck(f)
        \/ CallExchange(f)
        \/ CallStop(f)
        \/ \E r \in SeqRequests : CallDoGet(f, r)

OverlapSpec == SeqInit /\ [][OverlapNext]_vars

\* A call no request was delivered to can only time out.
OwnRequestsOnly ==
    \A f \in CallIds :
        calls[f].pc = "done" /\ calls[f].delivered = << >>
            => calls[f].result = << None, None, TimeoutMessage >>

\* The start of one call leaves what the other call's listener captured.
StartKeepsCaptured ==
    \A f, g \in CallIds :
        ( /\ f # g
          /\ calls[g].pc = "idle"
          /\ calls'[g].pc = "url"
          /\ calls[f].pc \in {"url", "wait"}
          /\ calls[f].delivered # << >> )
            => /\ auth_code' = auth_code
               /\ auth_state' = auth_state
               /\ error' = error

\* C34: when two calls of perform_oauth_flow overlap, a call's result comes
\* from the requests delivered to its own listener only, and the start of
\* one call does not erase what the other call's listener has captured.
C34_FlowsIsolated == []OwnRequestsOnly /\ [][StartKeepsCaptured]_vars

(***************************************************************************)
(* A redirect that carries a code and an error.                            *)
(***************************************************************************)

\* do_GET takes up a request.
Accepts == Len(reqLog') = Len(reqLog) + 1

\* do_GET finishes the code branch of the request it holds.
Completes == hpc = "write_state" /\ hpc' = "idle"

CodeAndError(q) == "code" \in DOMAIN q /\ "error" \in DOMAIN q

\* C35 as stated: a /callback request that carries both a code and an error
\* parameter is handled as a code request: the code and the state are
\* recorded, the error is not, and the response is 200.
C35_Original ==
    [][ /\ ( /\ Accepts
             /\ reqLog'[Len(reqLog')].path = "/callback"
             /\ CodeAndError(reqLog'[Len(reqLog')].query) )
          => ( /\ auth_code' = reqLog'[Len(reqLog')].query["code"]
               /\ error' = error
               /\ hpc' = "write_state" )
        /\ ( Completes /\ CodeAndError(hreq.query) )
          => ( /\ auth_state' = hreq.query["state"]
               /\ auth_code' = hreq.query["code"]
               /\ error' = error
               /\ responses' = Append(responses, 200) ) ]_vars

\* C35 amended: a /callback request that carries both a code that is not
\* blank and an error parameter is handled as a code request: the code and
\* the state are recorded, the error is not, and the response is 200.
C35_CodeWins ==
    [][ /\ ( /\ Accepts
             /\ reqLog'[Len(reqLog')].path = "/callback"
             /\ CodeAndError(reqLog'[Len(reqLog')].query)
             /\ reqLog'[Len(reqLog')].query["code"] # "" )
          => ( /\ auth_code' = reqLog'[Len(reqLog')].query["code"]
               /\ error' = error
               /\ hpc' = "write_state" )
        /\ ( /\ Completes
             /\ CodeAndError(hreq.query)
             /\ hreq.query["code"] # "" )
          => ( /\ auth_state' = hreq.query["state"]
               /\ auth_code' = hreq.query["code"]
               /\ error' = error
               /\ responses' = Append(responses, 200) ) ]_vars

\* The request with code and error has been handled.
C35_Witness ==
    /\ hpc = "idle"
    /\ Len(reqLog) > 0
    /\ CodeAndError(LastHandled.query)
    /\ LastHandled.query["code"] = "c1"
    /\ auth_code = "c1"
    /\ auth_state = "S1"
    /\ error = None
    /\ responses[Len(reqLog)] = 200

(***************************************************************************)
(* TokenStorage: save, load and clear on one token file.  storage_log      *)
(* keeps the calls made, with their arguments and what load returned.      *)
(***************************************************************************)

MaxOps == 3

\* The arguments save is called with.
AccessTokens == {"", "AT1", "AT2"}
RefreshTokens == {None, "", "RT1"}

\* TokenStorage.clear(): the file is removed when it exists.
Clear(file) == IF file.exists THEN NoFile ELSE file

StorageInit == AppInit

StorageFrame ==
    UNCHANGED << auth_code, auth_state, error, occupied, port, server,
                 serving, sockBound, pc, hpc, hreq, state, auth_url, code,
                 returned_state, flow_error, now, access_token,
                 refresh_token, token_data, outcome, result, raised,
                 exchange_calls, browser_opens, reqLog, readStart, readEnd,
                 responses, token_posts, probe, refresh_calls, flows,
                 reqBase, live, loop_steps, posted_redirect, token_status,
                 screen, starts, client, calls, tasks_call, argv, launched,
                 func, exit_code, printed, api_calls >>

\* storage.save(a, r)
StorageSave(a, r) ==
    /\ Len(storage_log) < MaxOps
    /\ stored' = Save(stored, a, r)
    /\ storage_log' = Append(storage_log,
                             [op |-> "save", a |-> a, r |-> r,
                              returned |-> NoTokenData])
    /\ StorageFrame

\* storage.load()
StorageLoad ==
    /\ Len(storage_log) < MaxOps
    /\ storage_log' = Append(storage_log,
                             [op |-> "load", a |-> None, r |-> None,
                              returned |-> Load(stored)])
    /\ UNCHANGED stored
    /\ StorageFrame

\* storage.clear()
StorageClear ==
    /\ Len(storage_log) < MaxOps
    /\ stored' = Clear(stored)
    /\ storage_log' = Append(storage_log,
                             [op |-> "clear", a |-> None, r |-> None,
                              returned |-> NoTokenData])
    /\ StorageFrame

StorageNext ==
    \/ \E a \in AccessTokens, r \in RefreshTokens : StorageSave(a, r)
    \/ StorageLoad
    \/ StorageClear

StorageSpec == StorageInit /\ [][StorageNext]_vars

\* What load must return after save(a, r).
SavedMapping(a, r) ==
    IF r \in {None, ""} THEN [access_token |-> a]
    ELSE [access_token |-> a, refresh_token |-> r]

\* C36: a load that follows save(a, r) returns access_token a, and
\* refresh_token r exactly when r is not empty; a load that follows clear,
\* or that finds no file, returns the empty mapping; clear removes the file
\* and a second clear changes nothing.
C36_StorageRoundTrip ==
    \A n \in 1 .. Len(storage_log) :
        LET c == storage_log[n] IN
          /\ ( /\ c.op = "load"
               /\ n > 1
               /\ storage_log[n - 1].op = "save" )
             => c.returned = SavedMapping(storage_log[n - 1].a,
                                          storage_log[n - 1].r)
          /\ ( /\ c.op = "load"
               /\ n > 1
               /\ storage_log[n - 1].op = "clear" )
             => c.returned = NoTokenData
          /\ ( /\ c.op = "load"
               /\ n = Len(storage_log)
               /\ ~stored.exists )
             => c.returned = NoTokenData
          /\ ( c.op = "clear" /\ n = Len(storage_log) ) => stored = NoFile

\* save with an empty refresh token, load, clear.
C36_Witness ==
    /\ Len(storage_log) = 3
    /\ storage_log[1].op = "save"
    /\ storage_log[1].a = "AT1"
    /\ storage_log[1].r = ""
    /\ storage_log[2].op = "load"
    /\ storage_log[2].returned = [access_token |-> "AT1"]
    /\ storage_log[3].op = "clear"
    /\ stored = NoFile

(***************************************************************************)
(* TickTickClient.get_all_tasks: the project list is fetched, then the     *)
(* tasks of each project in turn.  tasks_call.fetched keeps the answer     *)
(* each project's fetch got.                                               *)
(***************************************************************************)

MaxProjects == 3

ProjectIds == {"p1", "p2"}

\* What GET /project can answer: a list of projects, or a status that
\* raise_for_status() turns into HTTPStatusError.
ProjectLists ==
    UNION { [1 .. n -> ProjectIds] : n \in 0 .. MaxProjects }

\* What GET /project/{id}/data can give for project p: its tasks, an HTTP
\* status error, or a transport error (httpx.ConnectError).
FetchAnswers(p) ==
    { [kind |-> "ok", tasks |-> t] :
          t \in { << >>, << << p, 1 >> >>, << << p, 1 >>, << p, 2 >> >> } }
    \cup { [kind |-> k, tasks |-> << >>] :
               k \in {"HTTPStatusError", "ConnectError"} }

\* Faulty variant of Extend: the new tasks are put in front.
ExtendFront(all, tasks) == tasks \o all

\* all_tasks.extend(tasks)
Extend(all, tasks) == all \o tasks

\* except httpx.HTTPStatusError: continue
Skipped(kind) == kind = "HTTPStatusError"

TasksFrame ==
    UNCHANGED << auth_code, auth_state, error, occupied, port, server,
                 serving, sockBound, pc, hpc, hreq, state, auth_url, code,
                 returned_state, flow_error, now, access_token,
                 refresh_token, token_data, outcome, result, raised,
                 exchange_calls, browser_opens, reqLog, readStart, readEnd,
                 responses, token_posts, probe, refresh_calls, flows,
                 reqBase, live, loop_steps, stored, posted_redirect,
                 token_status, screen, starts, client, calls, storage_log,
                 argv, launched, func, exit_code, printed, api_calls >>

\* projects = await self.get_projects(); all_tasks = []
GetProjects ==
    /\ tasks_call.pc = "idle"
    /\ \/ \E ps \in ProjectLists :
            tasks_call' = [tasks_call EXCEPT !.pc = "loop", !.projects = ps,
                                             !.i = 1, !.all_tasks = << >>]
       \/ tasks_call' = [tasks_call EXCEPT !.pc = "raised",
                                           !.raised = "HTTPStatusError"]
    /\ TasksFrame

\* One turn of the loop: the project's tasks are fetched and appended, an
\* HTTPStatusError is skipped, any other exception leaves the function.
FetchProject ==
    /\ tasks_call.pc = "loop"
    /\ tasks_call.i <= Len(tasks_call.projects)
    /\ \E ans \in FetchAnswers(tasks_call.projects[tasks_call.i]) :
         tasks_call' =
           IF ans.kind = "ok"
           THEN [tasks_call EXCEPT !.i = @ + 1,
                                   !.fetched = Append(@, ans),
                                   !.all_tasks = Extend(@, ans.tasks)]
           ELSE IF Skipped(ans.kind)
           THEN [tasks_call EXCEPT !.i = @ + 1, !.fetched = Append(@, ans)]
           ELSE [tasks_call EXCEPT !.pc = "raised", !.raised = ans.kind,
                                   !.fetched = Append(@, ans)]
    /\ TasksFrame

\* return all_tasks
ReturnTasks ==
    /\ tasks_call.pc = "loop"
    /\ tasks_call.i > Len(tasks_call.projects)
    /\ tasks_call' = [tasks_call EXCEPT !.pc = "returned"]
    /\ TasksFrame

TasksNext ==
    \/ GetProjects
    \/ FetchProject
    \/ ReturnTasks

TasksSpec == SeqInit /\ [][TasksNext]_vars

\* The tasks of the fetches that succeeded, in the order of the fetches.
RECURSIVE SucceededTasks(_)
SucceededTasks(answers) ==
    IF answers = << >> THEN << >>
    ELSE LET rest == SucceededTasks(SubSeq(answers, 1, Len(answers) - 1))
             last == answers[Len(answers)]
         IN IF last.kind = "ok" THEN rest \o last.tasks ELSE rest

\* C37: get_all_tasks returns the tasks of every project whose fetch
\* succeeded, concatenated in project order, and skips the projects whose
\* fetch failed with an HTTP status error; when the fetch of the project
\* list fails the error propagates and nothing is returned.
C37_AllTasks ==
    /\ tasks_call.pc = "returned"
         => /\ tasks_call.raised = None
            /\ Len(tasks_call.fetched) = Len(tasks_call.projects)
            /\ \A j \in 1 .. Len(tasks_call.fetched) :
                 /\ tasks_call.fetched[j].kind \in {"ok", "HTTPStatusError"}
                 /\ tasks_call.fetched[j].kind = "ok"
                      => \A t \in 1 .. Len(tasks_call.fetched[j].tasks) :
                           tasks_call.fetched[j].tasks[t][1]
                               = tasks_call.projects[j]
            /\ tasks_call.all_tasks = SucceededTasks(tasks_call.fetched)
    /\ ( tasks_call.pc = "raised" /\ tasks_call.fetched = << >> )
         => /\ tasks_call.raised = "HTTPStatusError"
            /\ tasks_call.all_tasks = << >>
    /\ ( tasks_call.pc = "loop" /\ tasks_call.fetched # << >>
         /\ tasks_call.fetched[Len(tasks_call.fetched)].kind = "HTTPStatusError" )
         => tasks_call.raised = None

\* Three projects, the second one's fetch failed with a status error.
C37_Witness ==
    /\ tasks_call.pc = "returned"
    /\ tasks_call.projects = << "p1", "p2", "p1" >>
    /\ tasks_call.fetched[1].kind = "ok"
    /\ tasks_call.fetched[2].kind = "HTTPStatusError"
    /\ tasks_call.all_tasks = << << "p1", 1 >>, << "p1", 1 >>, << "p1", 2 >> >>

=============================================================================
